---- MODULE Spec2Model ----
(***************************************************************************)
(* Model of the YouTube-to-TikTok converter: the queue worker              *)
(* (src/src/worker.py), the web layer's in-memory pipeline                 *)
(* (src/src/web/app.py), the audit trail (src/src/logging/audit.py) and    *)
(* the artifact manifest (src/src/storage/artifact_manager.py).            *)
(*                                                                         *)
(* The worker and the web application are two separate programs that       *)
(* share no state (the web layer keeps its processes in the in-memory map  *)
(* active_processes and never touches the Task store), so a behaviour is   *)
(* a run of one of them: the variable program says which. The integrity    *)
(* ledger (src/src/validation/integrity_validator.py) is exercised on its  *)
(* own, as a third program, on every input of bounded size, and so is the  *)
(* artifact manifest's save_file_info, as a fourth.                        *)
(***************************************************************************)
EXTENDS Integers, Sequences, FiniteSets, TLC

\* ------------------------------------------------------------------------
\* Bounds of the model
\* ------------------------------------------------------------------------
MaxLoad == 3
MaxProcs == 1
MaxChain == 3
MaxFields == 2
MaxArtifacts == 2
MaxEvents == 3
MaxQueued == 2
TicksPerSecond == 2

\* ------------------------------------------------------------------------
\* Program constants
\* ------------------------------------------------------------------------
HashModulus == 10000

Workers == {1, 2}
Deployments == {{}, {1}, {1, 2}}
Urls == {1}
Priorities == {1, 5}
None == <<>>

StageNames == <<"acquisition", "analysis", "editing", "adaptation", "optimization", "publication">>
TaskProgress == <<5, 20, 40, 60, 75, 90>>
TaskStageMessage == <<"Telechargement de la video", "Analyse de la video", "Montage de la video", "Adaptation au format TikTok", "Optimisation pour la viralite", "Publication sur TikTok">>
WebStageStatus == <<"downloading", "analyzing", "editing", "adapting", "optimizing", "publishing">>
PublishStage == 6
LastMandatoryStage == 5

CancelError == "Processus annule par l'utilisateur"
StageError(s) == "StageFailure"
HashError == "Le fichier n'existe pas"
RecordError == "dictionary changed size during iteration"

TerminalStatuses == {"completed", "failed", "cancelled"}

VARIABLES
    program,          \* "worker" or "web": which program this behaviour runs
    started,          \* the worker processes that were started
    now,              \* the clock, in ticks of 1/TicksPerSecond second
    tasks,            \* tasks_collection, in insertion order
    results,          \* results_collection: the task ids inserted
    created,          \* the number of create_task calls and what the last one returned or raised
    pc,               \* per worker: position in Worker.run / process_task
    task,             \* per worker: run()'s local variable task (an id or None)
    current_task,     \* per worker: self.current_task (an id or None)
    running,          \* per worker: self.running
    stage,            \* per worker: the stage (1..6) process_task is at
    err,              \* per worker: str(e) of the exception being handled
    auditMem,         \* per worker: the logs of the AuditLogger object last constructed
    auditFile,        \* per process id: the persisted audit.json (status, events)
    manifestFile,     \* per process id: the persisted artifacts_manifest.json entries
    reportFile,       \* per process id: the persisted final_report.json
    calls,            \* per process id: the stage collaborators invoked, in order
    integrity,        \* per process id: the IntegrityValidator's report (in memory and persisted)
    thrown,           \* per process id: str(e) of the exception the pipeline's try block raised ("" if none)
    result,           \* per process id: the pipeline's local result, what TikTokPublisher.publish returned ("{}" before)
    active_processes, \* the web layer's process registry
    wpc,              \* per web process: position in process_conversion
    wstage,           \* per web process: the stage (1..6) process_conversion is at
    werr,             \* per web process: str(e) of the exception handled
    wauditMem,        \* per web process: the logs of its AuditLogger object
    cancelInfo,       \* per web process: where the first accepted cancel found the pipeline
    resp,             \* the last HTTP response of cancel_conversion or get_results
    chain_data,       \* the argument of validate_process_chain
    chain_result,     \* what validate_process_chain returned and recorded (None before the call)
    artifact_info,    \* the argument of save_file_info
    save_result,      \* what save_file_info raised and appended (None before the call)
    artifacts,        \* the artifacts of the manifest archive_artifacts is called on
    archive_result,   \* what archive_artifacts raised, bundled and appended (None before the call)
    signed,           \* the arguments of the create_integrity_signature call and what it raised, returned and recorded (None before the call)
    verified,         \* the arguments of the verify_integrity_signature call and what it returned and recorded (None before the call)
    logs,             \* the AuditLogger under test: self.logs[0] (None before construction)
    json_log_file,    \* the persisted audit.json of the AuditLogger under test (None while absent)
    log_file,         \* the persisted audit.log of the AuditLogger under test, as lines (None while absent)
    audit_call,       \* the last AuditLogger call: its name ("none" before the first) and how it ended
    ledger_call,      \* the last call of generate_file_hash, generate_data_hash or validate_file_integrity: its name ("none" before the call), arguments and result
    manifest,         \* the ArtifactManager under test: self.manifest (its artifacts and final_report)
    manifest_json,    \* the persisted artifacts_manifest.json of the ArtifactManager under test
    manager_call,     \* the last ArtifactManager call: its name ("none" before the first) and what it raised
    run_loop          \* the Worker.run loop under test, with process_task reduced to its outcome: position, self.running, self.current_task and the statuses of the Tasks in the store

workerVars == <<tasks, results, created, pc, task, current_task, running, stage, err, auditMem>>
storeVars == <<auditFile, manifestFile, reportFile, calls, integrity, thrown, result>>
webVars == <<active_processes, wpc, wstage, werr, wauditMem, cancelInfo, resp>>
ledgerVars == <<chain_data, chain_result, artifact_info, save_result, artifacts, archive_result, signed, verified, logs, json_log_file, log_file, audit_call, ledger_call, manifest, manifest_json, manager_call, run_loop>>
vars == <<program, started, now, tasks, results, created, pc, task, current_task, running, stage, err, auditMem, auditFile, manifestFile, reportFile, calls, integrity, thrown, result, active_processes, wpc, wstage, werr, wauditMem, cancelInfo, resp, chain_data, chain_result, artifact_info, save_result, artifacts, archive_result, signed, verified, logs, json_log_file, log_file, audit_call, ledger_call, manifest, manifest_json, manager_call, run_loop>>

\* ------------------------------------------------------------------------
\* Helpers on functions and sequences
\* ------------------------------------------------------------------------
Put(f, k, v) == [x \in (DOMAIN f) \cup {k} |-> IF x = k THEN v ELSE f[x]]

IsPrefix(s, t) == Len(s) <= Len(t) /\ \A i \in 1..Len(s) : s[i] = t[i]

Range(s) == {s[i] : i \in 1..Len(s)}

\* ------------------------------------------------------------------------
\* Audit trail (src/src/logging/audit.py)
\* ------------------------------------------------------------------------
\* AuditLogger.__init__ + _init_log: a fresh root record with no events.
InitLog == [status |-> "started", events |-> <<>>]

\* AuditLogger.log_event: append to the in-memory event list (then _write_log).
LogEvent(log, type) == [log EXCEPT !.events = Append(@, type)]

\* AuditLogger.log_start
LogStart(log) == LogEvent(log, "process_start")

\* AuditLogger.log_completion
LogCompletion(log) == [LogEvent(log, "process_complete") EXCEPT !.status = "completed"]

\* AuditLogger.log_error
LogError(log) == [LogEvent(log, "error") EXCEPT !.status = "error"]

\* ------------------------------------------------------------------------
\* Task store (MongoDB collection tasks)
\* ------------------------------------------------------------------------
TaskIds == {tasks[i].id : i \in 1..Len(tasks)}

\* (mutant) an update whose filter matches every document of the collection
MatchingAnyDocument(ts, id) == 1..Len(ts)

\* the documents matching the filter {"_id": id}
Matching(ts, id) == {i \in 1..Len(ts) : ts[i].id = id}

\* the document update_one / find_one address: the first one matching the filter
FirstMatch(ts, id) == CHOOSE i \in Matching(ts, id) : \A j \in Matching(ts, id) : i <= j

TaskOf(id) == tasks[FirstMatch(tasks, id)]

\* hash(url) % 10000; a url is identified with its hash value
UrlHash(url) == url % HashModulus

\* int(time.time())
ClockSecond(t) == t \div TicksPerSecond

\* f"task_{int(time.time())}_{hash(url) % 10000:04d}"
MakeProcessId(t, url) == <<ClockSecond(t), UrlHash(url)>>

\* (mutant) a lease whose filter also matches tasks already being processed
LeaseQueryAlsoProcessing(t) == t.status \in {"pending", "processing"}

\* the filter of the lease: {"status": "pending"}
LeaseQuery(t) == t.status = "pending"

\* (mutant) a lease sorted by creation time alone
SortsBeforeFifoOnly(a, b) == a.created_at < b.created_at

\* sort=[("priority", DESCENDING), ("created_at", ASCENDING)]
SortsBefore(a, b) ==
    \/ a.priority > b.priority
    \/ a.priority = b.priority /\ a.created_at < b.created_at

\* the documents find_one_and_update may pick: first in sort order among the matching
LeaseCandidates ==
    {i \in 1..Len(tasks) :
        /\ LeaseQuery(tasks[i])
        /\ \A j \in 1..Len(tasks) : LeaseQuery(tasks[j]) => ~SortsBefore(tasks[j], tasks[i])}

\* Worker.update_task_status: an unconditional $set on the document with this _id
UpdateTaskStatus(ts, id, status, progress, message) ==
    [i \in 1..Len(ts) |->
        IF Matching(ts, id) # {} /\ i = FirstMatch(ts, id)
        THEN [ts[i] EXCEPT !.status = status, !.progress = progress, !.message = message]
        ELSE ts[i]]

\* handle_shutdown's update: $set status = interrupted on the current task
MarkInterrupted(ts, id) ==
    [i \in 1..Len(ts) |->
        IF Matching(ts, id) # {} /\ i = FirstMatch(ts, id)
        THEN [ts[i] EXCEPT !.status = "interrupted"]
        ELSE ts[i]]

\* ------------------------------------------------------------------------
\* Integrity ledger (src/src/validation/integrity_validator.py)
\* ------------------------------------------------------------------------
\* a key that a chain element does not have
Absent == 0

\* the payloads a chain element may embed and the digests it may quote
Payloads == {1}
Hashes == {11, 12}

\* generate_data_hash: the SHA-256 of the canonical JSON of the value; distinct
\* values have distinct digests
DataHash(d) == d + 10

\* a chain element: meta says whether the keys stage and timestamp are both
\* there; data_hash, data and previous_hash hold a value or are absent
ChainRecords ==
    [meta : BOOLEAN, data_hash : {Absent} \cup Hashes, data : {Absent} \cup Payloads,
     previous_hash : {Absent} \cup Hashes]

Chains == UNION {[1..n -> ChainRecords] : n \in 0..MaxChain}

\* line 178: all(k in data for k in ["stage", "timestamp", "data_hash"])
HasRequiredFields(rec) == rec.meta /\ rec.data_hash # Absent

\* (mutant) a validation that never recomputes the digest of the payload
HashValidUnchecked(rec) == "none"

\* lines 189-198: the digest is recomputed when the payload is embedded
HashValid(rec) ==
    IF rec.data # Absent
    THEN (IF DataHash(rec.data) = rec.data_hash THEN "true" ELSE "false")
    ELSE "none"

\* (mutant) a link check that passes whatever the element quotes
PrevHashValidAlwaysPasses(rec, previous_hash) ==
    IF previous_hash # Absent /\ rec.previous_hash # Absent THEN "true" ELSE "none"

\* lines 201-208: the link to the previous element is compared when there is a
\* previous digest and the element quotes one
PrevHashValid(rec, previous_hash) ==
    IF previous_hash # Absent /\ rec.previous_hash # Absent
    THEN (IF rec.previous_hash = previous_hash THEN "true" ELSE "false")
    ELSE "none"

\* lines 214-221: the result recorded for an element that has the required keys
CheckedResult(rec, previous_hash) ==
    [checked |-> TRUE, hash_valid |-> HashValid(rec),
     prev_hash_valid |-> PrevHashValid(rec, previous_hash),
     is_valid |-> HashValid(rec) # "false" /\ PrevHashValid(rec, previous_hash) # "false"]

\* lines 181-185: the result recorded for an element that lacks a required key
IncompleteResult ==
    [checked |-> FALSE, hash_valid |-> "none", prev_hash_valid |-> "none", is_valid |-> FALSE]

\* the loop of lines 176-221 from element i on, with the loop's variables
\* is_valid, previous_hash and validation_results
RECURSIVE ChainLoop(_, _, _, _, _)
ChainLoop(cd, i, is_valid, previous_hash, validation_results) ==
    IF i > Len(cd)
    THEN [is_valid |-> is_valid, results |-> validation_results]
    ELSE IF ~HasRequiredFields(cd[i])
    THEN ChainLoop(cd, i + 1, FALSE, previous_hash, Append(validation_results, IncompleteResult))
    ELSE ChainLoop(cd, i + 1,
            is_valid /\ HashValid(cd[i]) # "false" /\ PrevHashValid(cd[i], previous_hash) # "false",
            cd[i].data_hash,
            Append(validation_results, CheckedResult(cd[i], previous_hash)))

\* validate_process_chain: the value returned, the per-element results and
\* whether a process_chain validation was recorded in the report (an empty
\* chain returns False at once and records nothing)
ValidateProcessChain(cd) ==
    IF Len(cd) = 0
    THEN [returned |-> FALSE, results |-> <<>>, recorded |-> FALSE]
    ELSE LET out == ChainLoop(cd, 1, TRUE, Absent, <<>>) IN
         [returned |-> out.is_valid, results |-> out.results, recorded |-> TRUE]

\* _record_validation saves the report on every SaveEvery-th validation only
SaveEvery == 10

\* the validations each stage records: generate_file_hash for the video and
\* the audio, generate_data_hash for the segments, generate_file_hash for the
\* edited, the adapted and the optimized video, generate_data_hash for the
\* metadata; publication records none
StageValidations == <<2, 1, 1, 1, 2, 0>>

\* IntegrityValidator.__init__: an empty report in memory, no report file yet
NewReport == [validations |-> 0, report_file |-> None]

\* _record_validation: append to the report and save it when the number of
\* validations is a multiple of SaveEvery; report_file holds the number of
\* validations in the saved report
RecordValidation(r) ==
    [validations |-> r.validations + 1,
     report_file |-> IF (r.validations + 1) % SaveEvery = 0 THEN <<r.validations + 1>> ELSE r.report_file]

\* k validations recorded one after the other
RECURSIVE RecordValidations(_, _)
RecordValidations(r, k) == IF k = 0 THEN r ELSE RecordValidations(RecordValidation(r), k - 1)

\* ------------------------------------------------------------------------
\* Artifact manifest (src/src/storage/artifact_manager.py)
\* ------------------------------------------------------------------------
\* what a value of an artifact_info can be: the path of an existing regular
\* file, the path of an existing file that cannot be read, a string that
\* names no file, or a value that is not a string
FieldValues == {"file", "unreadable", "nofile", "data"}

\* a field of an artifact_info: its value, and whether the dictionary already
\* has the key "<key>_info"
InfoFields == [value : FieldValues, has_info : BOOLEAN]

\* the artifact_info dictionaries: a stage and up to MaxFields other fields
Infos == [stage : {"acquisition", "unknown"},
          fields : UNION {[1..n -> InfoFields] : n \in 0..MaxFields}]

\* lines 68-86: the fields the loop gives a digested sub-object: the value is
\* an existing regular file and hashing it succeeds (a failure to hash is
\* caught inside the loop and logged as a warning)
Expanded(info) == {k \in DOMAIN info.fields : info.fields[k].value = "file"}

\* the loop iterates over artifact_info.items() and assigns
\* artifact_info["<key>_info"] inside it: when that key is new the dictionary
\* grows, and the for statement's next step raises RuntimeError (the keys
\* timestamp and datetime, added before the loop, are always there, and the
\* size is checked before the end of the iteration is)
GrowsDuringIteration(info) == \E k \in Expanded(info) : ~info.fields[k].has_info

\* save_file_info: raises from the loop, or appends one entry and saves the
\* manifest
SaveFileInfo(info) ==
    IF GrowsDuringIteration(info)
    THEN [raised |-> RecordError, appended |-> <<>>]
    ELSE [raised |-> "", appended |-> <<[stage |-> info.stage, expanded |-> Expanded(info)]>>]

\* what the path a manifest entry references is when archive_artifacts runs:
\* an existing regular file, or a path whose file was deleted since
ArtifactFiles == {"file", "nofile"}

\* the artifacts of a manifest: each entry holds the path of its artifact
Manifests == UNION {[1..n -> ArtifactFiles] : n \in 0..MaxArtifacts}

\* the member of the zip that is the manifest file (the other members are
\* named by the index of the entry that references them)
manifest_file == 0

\* lines 212-227: the zip holds the manifest and, of the paths the entries
\* hold, those that are existing regular files
Bundle(m) == {manifest_file} \cup {i \in DOMAIN m : m[i] = "file"}

\* lines 234-240: the archive_info recorded: the path of the zip just
\* written (an existing regular file), its digest, its size and the number of
\* artifacts
ArchiveInfo(m) ==
    [stage |-> "artifacts_archive",
     fields |-> <<[value |-> "file", has_info |-> FALSE],
                  [value |-> "nofile", has_info |-> FALSE],
                  [value |-> "data", has_info |-> FALSE],
                  [value |-> "data", has_info |-> FALSE]>>,
     artifact_count |-> Len(m)]

\* lines 247-250: any exception of the body is raised again as a ValueError
ArchiveError == "Erreur lors de l'archivage des artefacts"

\* archive_artifacts: write the zip, record the archive_info with
\* save_file_info, return the path; an exception of save_file_info is caught
\* by the except clause and raised as ArchiveError
ArchiveArtifacts(m) ==
    LET saved == SaveFileInfo(ArchiveInfo(m)) IN
    IF saved.raised # ""
    THEN [raised |-> ArchiveError, bundle |-> Bundle(m), appended |-> <<>>]
    ELSE [raised |-> "", bundle |-> Bundle(m),
          appended |-> <<[stage |-> "artifacts_archive", artifact_count |-> ArchiveInfo(m).artifact_count]>>]

\* the stages whose artifact is a file that is hashed with generate_file_hash
\* and whose path is a value of the artifact_info recorded
FileStages == {1, 3, 4, 5}

\* the artifact_info process_task records for stage s, given what the
\* artifact's path is when save_file_info looks at it: the path itself and
\* its hexadecimal digest (a string that names no file)
StageInfo(s, artifact) ==
    [stage |-> StageNames[s],
     fields |-> <<[value |-> artifact, has_info |-> FALSE], [value |-> "nofile", has_info |-> FALSE]>>]

\* ------------------------------------------------------------------------
\* Keyed signatures (src/src/validation/integrity_validator.py)
\* ------------------------------------------------------------------------
\* the values signed: a list, the tuple of the same items, a list of other
\* items, and a set (which json.dumps cannot serialise)
SignedValues == {"[1, 2]", "(1, 2)", "[1, 3]", "{1, 2}"}

\* json.dumps raises TypeError on a value it cannot serialise
NotSerializable == "TypeError"

\* json.dumps(data, sort_keys=True): a tuple is written as the list of its
\* items
JsonDumps(data) ==
    CASE data = "(1, 2)" -> "[1, 2]"
      [] data = "{1, 2}" -> NotSerializable
      [] OTHER -> data

\* the secret keys: "k", "k" followed by a zero byte, and "j"
SecretKeys == {"k", "k0", "j"}

\* HMAC pads a key shorter than the block of the hash with zero bytes: the
\* key block of "k" followed by a zero byte is the key block of "k"
KeyBlock(secret_key) == IF secret_key = "k0" THEN "k" ELSE secret_key

\* a MAC that forgets the key
HmacIgnoresKey(secret_key, json_data) == <<"", json_data>>

\* hmac.new(key, message, sha256).hexdigest(): a function of the key block
\* and the message, taken to be free of collisions
Hmac(secret_key, json_data) == <<KeyBlock(secret_key), json_data>>

\* a signature string with a character outside ASCII, on which
\* hmac.compare_digest raises TypeError
NonAscii == <<"non-ascii">>

\* the signature strings handed to verify_integrity_signature
Signatures ==
    {Hmac(k, JsonDumps(v)) : k \in SecretKeys, v \in SignedValues \ {"{1, 2}"}} \cup {NonAscii}

SignError == "Erreur lors de la creation de la signature"

\* create_integrity_signature: serialise, sign, record the validation
\* "integrity_signature"; any exception is raised again as a ValueError and
\* nothing is recorded
CreateIntegritySignature(data, secret_key) ==
    IF JsonDumps(data) = NotSerializable
    THEN [raised |-> SignError, signature |-> None, recorded |-> <<>>]
    ELSE [raised |-> "", signature |-> Hmac(secret_key, JsonDumps(data)), recorded |-> <<"integrity_signature">>]

\* verify_integrity_signature: sign again, compare with compare_digest,
\* record "signature_verification"; an exception of the signing or of the
\* comparison is caught, recorded as "signature_verification_error" and the
\* result is False
VerifyIntegritySignature(data, signature, secret_key) ==
    LET new == CreateIntegritySignature(data, secret_key) IN
    IF new.raised # "" \/ signature = NonAscii
    THEN [returned |-> FALSE, recorded |-> new.recorded \o <<"signature_verification_error">>]
    ELSE [returned |-> (new.signature = signature), recorded |-> new.recorded \o <<"signature_verification">>]

\* ------------------------------------------------------------------------
\* Persisting the audit trail (src/src/logging/audit.py, _write_log)
\* ------------------------------------------------------------------------
\* json.dump(self.logs, f): the structured document holds the root record
\* with its events
RenderJson(log) == [status |-> log.status, events |-> log.events]

\* the text document: a line "Statut: <status>", then one block per event
RenderText(log) == <<log.status>> \o log.events

\* how one call of _write_log can end: both files written; the open or the
\* write of audit.json raises; audit.json is written and the open of
\* audit.log raises; the process is killed between the two writes
WriteOutcomes == {"written", "json_fails", "text_fails", "killed"}

WriteError == "OSError"

\* (mutant) a flush that leaves audit.json as it was
WriteLogKeepsJson(log, json_doc, text_doc, outcome) ==
    [json |-> json_doc, text |-> IF outcome = "written" THEN RenderText(log) ELSE text_doc,
     raised |-> CASE outcome = "written" -> "" [] outcome = "killed" -> "killed" [] OTHER -> WriteError]

\* _write_log: audit.json is written first, audit.log second, each replaced
\* as a whole; an exception of either write is not caught
WriteLog(log, json_doc, text_doc, outcome) ==
    [json |-> IF outcome = "json_fails" THEN json_doc ELSE RenderJson(log),
     text |-> IF outcome = "written" THEN RenderText(log) ELSE text_doc,
     raised |-> CASE outcome = "written" -> "" [] outcome = "killed" -> "killed" [] OTHER -> WriteError]

\* log_completion and log_error: log_event (append, flush), then the status
\* is set and the log is flushed again; the second part runs only when the
\* first flush returned
TwoFlushes(log, type, status, json_doc, text_doc, first, second) ==
    LET appended == LogEvent(log, type)
        one == WriteLog(appended, json_doc, text_doc, first)
        final == [appended EXCEPT !.status = status]
        two == WriteLog(final, one.json, one.text, second)
    IN IF one.raised # ""
       THEN [log |-> appended, json |-> one.json, text |-> one.text, raised |-> one.raised]
       ELSE [log |-> final, json |-> two.json, text |-> two.text, raised |-> two.raised]

\* ------------------------------------------------------------------------
\* Hashing and file verification (src/src/validation/integrity_validator.py)
\* ------------------------------------------------------------------------
\* what the path given to generate_file_hash is: an existing regular file, an
\* existing path that cannot be read, or a path that does not exist
PathStates == {"file", "unreadable", "nofile"}

\* lines 66-79: any exception of the read is raised again as a ValueError
ReadError == "Erreur lors du calcul de l'empreinte"

\* a validation appended to the report: its type and the is_valid of its
\* details ("none" when the details have no such key)
Validation(type, is_valid) == [type |-> type, is_valid |-> is_valid]

\* generate_file_hash on a path in state path whose bytes have the digest
\* file_hash: raises when the path does not exist (before the try) or cannot
\* be read, and records "file_hash" only after a successful read
GenerateFileHash(path, file_hash) ==
    CASE path = "nofile" -> [raised |-> HashError, returned |-> None, recorded |-> <<>>]
      [] path = "unreadable" -> [raised |-> ReadError, returned |-> None, recorded |-> <<>>]
      [] OTHER -> [raised |-> "", returned |-> <<file_hash>>, recorded |-> <<Validation("file_hash", "none")>>]

\* generate_data_hash: the digest of the JSON serialisation, recorded as
\* "data_hash"; when json.dumps raises, the digest of str(data) is returned
\* and nothing is recorded
GenerateDataHash(data) ==
    IF JsonDumps(data) = NotSerializable
    THEN [raised |-> "", returned |-> <<"sha256", "str", data>>, recorded |-> <<>>]
    ELSE [raised |-> "", returned |-> <<"sha256", "json", JsonDumps(data)>>, recorded |-> <<Validation("data_hash", "none")>>]

\* (mutant) a verification that does not compare the digests
ValidateFileIntegrityNoCompare(path, file_hash, expected_hash) ==
    LET current == GenerateFileHash(path, file_hash) IN
    IF current.raised # ""
    THEN [raised |-> "", returned |-> FALSE,
          recorded |-> current.recorded \o <<Validation("file_integrity_error", "none")>>]
    ELSE [raised |-> "", returned |-> TRUE,
          recorded |-> current.recorded \o <<Validation("file_integrity", "true")>>]

\* validate_file_integrity: hash the file, compare, record "file_integrity"
\* with is_valid; an exception of the hashing is caught, recorded as
\* "file_integrity_error" and the result is False
ValidateFileIntegrity(path, file_hash, expected_hash) ==
    LET current == GenerateFileHash(path, file_hash) IN
    IF current.raised # ""
    THEN [raised |-> "", returned |-> FALSE,
          recorded |-> current.recorded \o <<Validation("file_integrity_error", "none")>>]
    ELSE [raised |-> "", returned |-> (file_hash = expected_hash),
          recorded |-> current.recorded \o
                <<Validation("file_integrity", IF file_hash = expected_hash THEN "true" ELSE "false")>>]

\* ------------------------------------------------------------------------
\* Persisting the manifest (src/src/storage/artifact_manager.py)
\* ------------------------------------------------------------------------
\* how _save_manifest, and the write of final_report.json, can end: the file
\* is replaced, or the open raises and the file stays as it was
SaveOutcomes == {"written", "fails"}

\* (mutant) a save that leaves artifacts_manifest.json as it was
SaveManifestKeepsFile(m, on_disk, outcome) ==
    [json |-> on_disk, raised |-> IF outcome = "written" THEN "" ELSE WriteError]

\* _save_manifest: json.dump of the whole of self.manifest; an exception of
\* the write is not caught
SaveManifest(m, on_disk, outcome) ==
    [json |-> IF outcome = "written" THEN m ELSE on_disk,
     raised |-> IF outcome = "written" THEN "" ELSE WriteError]

\* save_file_info on the manager's manifest: when the loop raises nothing is
\* appended; else the entry is appended to self.manifest and the manifest is
\* saved
RecordInManifest(m, on_disk, info, outcome) ==
    LET r == SaveFileInfo(info)
        appended == [m EXCEPT !.artifacts = @ \o r.appended]
        saved == SaveManifest(appended, on_disk, outcome)
    IN IF r.raised # ""
       THEN [manifest |-> m, json |-> on_disk, raised |-> r.raised]
       ELSE [manifest |-> appended, json |-> saved.json, raised |-> saved.raised]

\* lines 134-140: the artifact_info copy_artifact records: the source path
\* and the target path, both existing regular files after the copy, the
\* digest and the size
CopyInfo ==
    [stage |-> "artifact_copy",
     fields |-> <<[value |-> "file", has_info |-> FALSE],
                  [value |-> "file", has_info |-> FALSE],
                  [value |-> "nofile", has_info |-> FALSE],
                  [value |-> "data", has_info |-> FALSE]>>]

\* lines 294-301: the upload_info upload_to_s3 records: the path of the
\* uploaded file (an existing file), the bucket, the key, the url, the size
UploadInfo ==
    [stage |-> "s3_upload",
     fields |-> <<[value |-> "file", has_info |-> FALSE],
                  [value |-> "nofile", has_info |-> FALSE],
                  [value |-> "nofile", has_info |-> FALSE],
                  [value |-> "nofile", has_info |-> FALSE],
                  [value |-> "data", has_info |-> FALSE]>>]

CopyError == "Erreur lors de la copie de l'artefact"
UploadError == "Erreur lors du telechargement vers S3"
SourceMissing == "Le fichier source n'existe pas"

\* copy_artifact, upload_to_s3: a missing path raises before the try; a path
\* that cannot be read makes the copy or the upload raise; else the file is
\* copied or uploaded and its info recorded; every exception of the try is
\* raised again as a ValueError
RecordAfterTransfer(m, on_disk, path, info, outcome, error) ==
    IF path = "nofile" THEN [manifest |-> m, json |-> on_disk, raised |-> SourceMissing]
    ELSE IF path = "unreadable" THEN [manifest |-> m, json |-> on_disk, raised |-> error]
    ELSE LET r == RecordInManifest(m, on_disk, info, outcome) IN
         [manifest |-> r.manifest, json |-> r.json, raised |-> IF r.raised # "" THEN error ELSE ""]

\* the final reports handed to save_final_report
FinalReports == {[tiktok_published |-> b] : b \in BOOLEAN}

\* save_final_report: final_report.json is written first, then the report is
\* put into self.manifest and the manifest is saved
SaveFinalReport(m, on_disk, report, report_write, outcome) ==
    LET updated == [m EXCEPT !.final_report = report]
        saved == SaveManifest(updated, on_disk, outcome)
    IN IF report_write # "written"
       THEN [manifest |-> m, json |-> on_disk, raised |-> WriteError]
       ELSE [manifest |-> updated, json |-> saved.json, raised |-> saved.raised]

\* ------------------------------------------------------------------------
\* Worker.run with a store that may be unreachable (src/src/worker.py)
\* ------------------------------------------------------------------------
\* how a call of process_task can end: its last update wrote completed, its
\* except clause wrote failed, or the update of the except clause (line 321)
\* raised because the store did not answer, and the exception left
\* process_task
ProcessOutcomes == {"completed", "failed", "escaped"}

\* the pending Task the lease picks: the first one (one priority, ids in
\* order of creation)
FirstPending(ts) == CHOOSE i \in DOMAIN ts : ts[i] = "pending" /\ \A j \in DOMAIN ts : ts[j] = "pending" => i <= j

\* lines 128-130: the except clause of run() logs and sleeps 10 s; it does
\* not touch self.current_task
AfterEscape(l) == [l EXCEPT !.pc = "error_sleep"]

\* lines 106-126, one lease attempt: find_one_and_update raises (store
\* unreachable), returns a Task (self.current_task = task, process_task is
\* entered) or returns None (sleep 5 s)
LeaseAttempt(l, store_up) ==
    IF ~store_up THEN AfterEscape(l)
    ELSE IF \E i \in DOMAIN l.tasks : l.tasks[i] = "pending"
    THEN [l EXCEPT !.pc = "process", !.current_task = <<FirstPending(l.tasks)>>,
                   !.tasks[FirstPending(l.tasks)] = "processing"]
    ELSE [l EXCEPT !.pc = "sleep"]

\* lines 120-123: process_task returns and self.current_task = None is
\* executed, or it raises and control goes to the except clause of run()
ProcessTask(l, outcome) ==
    IF outcome = "escaped" THEN AfterEscape(l)
    ELSE [l EXCEPT !.pc = "poll", !.current_task = None, !.tasks[l.current_task[1]] = outcome]

\* handle_shutdown: self.running = False, the Task in self.current_task is
\* marked interrupted, sys.exit(0)
Shutdown(l) ==
    [l EXCEPT !.pc = "exited", !.running = FALSE,
              !.tasks = IF l.current_task = None THEN @
                        ELSE [@ EXCEPT ![l.current_task[1]] = "interrupted"]]

\* ------------------------------------------------------------------------
\* Initial state
\* ------------------------------------------------------------------------
\* the programs a behaviour can run: the worker loop, the web layer, and one
\* call of an operation of the integrity ledger or of the artifact manifest
Programs == {"worker", "web", "ledger", "manifest", "archive", "signature", "audit", "hasher", "manager", "loop"}

Init ==
    /\ program \in Programs
    /\ started \in Deployments
    /\ program # "worker" => started = {}
    /\ program = "worker" => started # {}
    /\ chain_data \in Chains
    /\ program # "ledger" => chain_data = <<>>
    /\ chain_result = None
    /\ artifact_info \in Infos
    /\ program # "manifest" => artifact_info = [stage |-> "unknown", fields |-> <<>>]
    /\ save_result = None
    /\ artifacts \in Manifests
    /\ program # "archive" => artifacts = <<>>
    /\ archive_result = None
    /\ signed = None
    /\ verified = None
    /\ logs = None
    /\ json_log_file = None
    /\ log_file = None
    /\ audit_call = [op |-> "none", raised |-> ""]
    /\ ledger_call = [op |-> "none"]
    /\ manifest = [artifacts |-> <<>>, final_report |-> None]
    /\ manifest_json = [artifacts |-> <<>>, final_report |-> None]
    /\ manager_call = [op |-> "none", raised |-> ""]
    /\ run_loop \in {[pc |-> "poll", running |-> TRUE, current_task |-> None, tasks |-> [i \in 1..n |-> "pending"]] : n \in 0..MaxQueued}
    /\ program # "loop" => run_loop.tasks = <<>>
    /\ now = 0
    /\ tasks = <<>>
    /\ results = <<>>
    /\ created = [calls |-> 0, raised |-> "", id |-> None]
    /\ pc = [w \in Workers |-> IF w \in started THEN "poll" ELSE "exited"]
    /\ task = [w \in Workers |-> None]
    /\ current_task = [w \in Workers |-> None]
    /\ running = [w \in Workers |-> w \in started]
    /\ stage = [w \in Workers |-> 0]
    /\ err = [w \in Workers |-> ""]
    /\ auditMem = [w \in Workers |-> None]
    /\ auditFile = <<>>
    /\ manifestFile = <<>>
    /\ reportFile = <<>>
    /\ calls = <<>>
    /\ integrity = <<>>
    /\ thrown = <<>>
    /\ result = <<>>
    /\ active_processes = <<>>
    /\ wpc = <<>>
    /\ wstage = <<>>
    /\ werr = <<>>
    /\ wauditMem = <<>>
    /\ cancelInfo = <<>>
    /\ resp = None

\* ------------------------------------------------------------------------
\* create_task (src/src/worker.py)
\* ------------------------------------------------------------------------
NewTask(id, url, publish, priority, t) ==
    [id |-> id, process_id |-> id, status |-> "pending", progress |-> 0,
     message |-> <<"En attente de traitement">>, url |-> url, publish |-> publish,
     priority |-> priority, created_at |-> t, worker_id |-> 0]

\* the clock readings a call may see: time has passed since the last reading
LaterTimes == {now + d : d \in 1..TicksPerSecond}

\* insert_one raises DuplicateKeyError when a document with this _id exists, and
\* create_task lets it propagate: nothing is inserted and nothing returned
create_task(url, publish, priority) ==
    /\ program = "worker"
    /\ created.calls + Cardinality(started) < MaxLoad
    /\ \E t \in LaterTimes :
        /\ now' = t
        /\ LET id == MakeProcessId(t, url) IN
            IF id \in TaskIds
            THEN /\ created' = [calls |-> created.calls + 1, raised |-> "DuplicateKeyError", id |-> None]
                 /\ tasks' = tasks
            ELSE /\ created' = [calls |-> created.calls + 1, raised |-> "", id |-> id]
                 /\ tasks' = Append(tasks, NewTask(id, url, publish, priority, t))
    /\ UNCHANGED <<program, ledgerVars, started, results, pc, task, current_task, running, stage, err, auditMem, storeVars, webVars>>

\* ------------------------------------------------------------------------
\* Worker.run (src/src/worker.py): the lease
\* ------------------------------------------------------------------------
\* find_one_and_update: one atomic conditional read-modify-write on the store.
\* With a pending task it sets status = processing and worker_id and returns the
\* document; with none it returns None and the worker sleeps.
Lease(w) ==
    /\ program = "worker"
    /\ pc[w] = "poll"
    /\ IF LeaseCandidates # {}
       THEN \E i \in LeaseCandidates :
            /\ tasks' = [tasks EXCEPT ![i].status = "processing", ![i].worker_id = w]
            /\ task' = [task EXCEPT ![w] = tasks[i].id]
            /\ pc' = [pc EXCEPT ![w] = "assign"]
       ELSE /\ tasks' = tasks
            /\ task' = [task EXCEPT ![w] = None]
            /\ pc' = [pc EXCEPT ![w] = "sleep"]
    /\ UNCHANGED <<program, ledgerVars, started, now, results, created, current_task, running, stage, err, auditMem, storeVars, webVars>>

\* await asyncio.sleep(5) returns; the while condition self.running is tested
Wake(w) ==
    /\ program = "worker"
    /\ pc[w] = "sleep"
    /\ pc' = [pc EXCEPT ![w] = IF running[w] THEN "poll" ELSE "exited"]
    /\ UNCHANGED <<program, ledgerVars, started, now, tasks, results, created, task, current_task, running, stage, err, auditMem, storeVars, webVars>>

\* ------------------------------------------------------------------------
\* Worker.process_task
\* ------------------------------------------------------------------------
\* the value of the local result before the publication stage (line 253)
EmptyResult == "{}"

\* what TikTokPublisher.publish returns: a dict whose "success" is True, or
\* one whose "success" is False (credentials missing, video not found, a
\* step refused, or an exception it caught)
PublishResult(outcome) == IF outcome = "failure_reported" THEN "success: False" ELSE "success: True"

\* the local result after a stage: assigned by the publication stage only
StageResult(s, outcome, before) == IF s = PublishStage THEN PublishResult(outcome) ELSE before

\* lines 271-285: the final report; tiktok_published is the request's publish
\* flag, tiktok_result is what the publisher returned
FinalReport(publish, res) ==
    [tiktok_published |-> publish, tiktok_result |-> IF publish THEN res ELSE EmptyResult]

\* self.current_task = task, then lines 143-170 of process_task: the first
\* status update, the audit logger (log_start), the artifact manager (a fresh
\* manifest, saved) and the integrity validator
BeginTask(w) ==
    /\ program = "worker"
    /\ pc[w] = "assign"
    /\ current_task' = [current_task EXCEPT ![w] = task[w]]
    /\ tasks' = UpdateTaskStatus(tasks, task[w], "processing", 0, <<"Initialisation">>)
    /\ auditMem' = [auditMem EXCEPT ![w] = LogStart(InitLog)]
    /\ auditFile' = Put(auditFile, task[w], LogStart(InitLog))
    /\ manifestFile' = Put(manifestFile, task[w], <<>>)
    /\ calls' = Put(calls, task[w], <<>>)
    /\ integrity' = Put(integrity, task[w], NewReport)
    /\ thrown' = Put(thrown, task[w], "")
    /\ result' = Put(result, task[w], EmptyResult)
    /\ stage' = [stage EXCEPT ![w] = 1]
    /\ pc' = [pc EXCEPT ![w] = "stage"]
    /\ UNCHANGED <<program, ledgerVars, started, now, results, created, task, running, err, reportFile, webVars>>

\* (mutant) a pipeline that runs the publication stage whatever the flag
AfterStageAlwaysPublishes(s, publish) ==
    IF s <= LastMandatoryStage THEN "stage" ELSE "finalize"

\* where process_task goes after stage s has been recorded
AfterStage(s, publish) ==
    IF s < LastMandatoryStage \/ (s = LastMandatoryStage /\ publish) THEN "stage" ELSE "finalize"

\* what a stage may do. The collaborator raises ("raised"; TikTokPublisher.publish
\* catches its own exceptions and always returns), or it returns: a stage with
\* no file artifact then records its data ("returned"); a file stage finds the
\* artifact file missing when it hashes it ("missing"), or hashes it and finds
\* it still there ("present") or gone ("vanished") when it records it
\* (save_file_info raises on an existing file, so a file stage completes only
\* when the path no longer names a file by the time it is recorded)
StageOutcomes(s) ==
    (IF s = PublishStage THEN {"failure_reported"} ELSE {"raised"})
    \cup (IF s \in FileStages THEN {"missing", "present", "vanished"} ELSE {"returned"})

\* what save_file_info finds at the artifact's path
ArtifactAtRecord(outcome) ==
    IF outcome = "present" THEN "file" ELSE IF outcome = "vanished" THEN "nofile" ELSE "data"

\* the exception a stage ends with ("" when it completes): the collaborator's,
\* generate_file_hash's ValueError, or save_file_info's RuntimeError
StageException(s, outcome) ==
    IF outcome = "raised" THEN StageError(s)
    ELSE IF outcome = "missing" THEN HashError
    ELSE SaveFileInfo(StageInfo(s, ArtifactAtRecord(outcome))).raised

\* the validations a stage recorded in the integrity report before it ended
StageRecorded(s, outcome) == IF outcome \in {"raised", "missing"} THEN 0 ELSE StageValidations[s]

\* one stage: update_task_status, then the stage collaborator is invoked; when
\* it returns the artifact is hashed and recorded in the manifest; an exception
\* raised by any of these sends control to the except clause
Stage(w) ==
    /\ program = "worker"
    /\ pc[w] = "stage"
    /\ tasks' = UpdateTaskStatus(tasks, task[w], "processing", TaskProgress[stage[w]], <<TaskStageMessage[stage[w]]>>)
    /\ calls' = Put(calls, task[w], Append(calls[task[w]], StageNames[stage[w]]))
    /\ \E outcome \in StageOutcomes(stage[w]) :
        /\ integrity' = Put(integrity, task[w], RecordValidations(integrity[task[w]], StageRecorded(stage[w], outcome)))
        /\ thrown' = Put(thrown, task[w], StageException(stage[w], outcome))
        /\ result' = Put(result, task[w], StageResult(stage[w], outcome, result[task[w]]))
        /\ IF StageException(stage[w], outcome) = ""
           THEN /\ manifestFile' = Put(manifestFile, task[w], Append(manifestFile[task[w]], StageNames[stage[w]]))
                /\ pc' = [pc EXCEPT ![w] = AfterStage(stage[w], TaskOf(task[w]).publish)]
                /\ stage' = [stage EXCEPT ![w] = stage[w] + 1]
                /\ err' = err
           ELSE /\ manifestFile' = manifestFile
                /\ pc' = [pc EXCEPT ![w] = "h_audit"]
                /\ stage' = stage
                /\ err' = [err EXCEPT ![w] = StageException(stage[w], outcome)]
    /\ UNCHANGED <<program, ledgerVars, started, now, results, created, task, current_task, running, auditMem, auditFile, reportFile, webVars>>

\* what results_collection.insert_one may do: insert the document, or raise
\* a pymongo error (the store does not answer)
InsertOutcomes == {"inserted", "raised"}

\* str(e) of the error insert_one raises
InsertError == "PyMongoError"

\* lines 266-303: save_final_report, log_completion, then
\* results_collection.insert_one; when the insert raises, control goes to the
\* except clause with the report and the completion already written
Finalize(w) ==
    /\ program = "worker"
    /\ pc[w] = "finalize"
    /\ reportFile' = Put(reportFile, task[w], FinalReport(TaskOf(task[w]).publish, result[task[w]]))
    /\ auditMem' = [auditMem EXCEPT ![w] = LogCompletion(auditMem[w])]
    /\ auditFile' = Put(auditFile, task[w], LogCompletion(auditMem[w]))
    /\ \E insert \in InsertOutcomes :
        IF insert = "inserted"
        THEN /\ results' = Append(results, task[w])
             /\ pc' = [pc EXCEPT ![w] = "complete"]
             /\ UNCHANGED <<thrown, err>>
        ELSE /\ results' = results
             /\ pc' = [pc EXCEPT ![w] = "h_audit"]
             /\ thrown' = Put(thrown, task[w], InsertError)
             /\ err' = [err EXCEPT ![w] = InsertError]
    /\ UNCHANGED <<program, ledgerVars, integrity, result, started, now, tasks, created, task, current_task, running, stage, manifestFile, calls, webVars>>

\* line 306: update_task_status(task_id, "completed", 100, ...); process_task
\* returns and its locals are gone
Complete(w) ==
    /\ program = "worker"
    /\ pc[w] = "complete"
    /\ tasks' = UpdateTaskStatus(tasks, task[w], "completed", 100, <<"Conversion terminee">>)
    /\ pc' = [pc EXCEPT ![w] = "clear"]
    /\ stage' = [stage EXCEPT ![w] = 0]
    /\ auditMem' = [auditMem EXCEPT ![w] = None]
    /\ UNCHANGED <<program, ledgerVars, started, now, results, created, task, current_task, running, err, storeVars, webVars>>

\* the log the except clause writes: it constructs a NEW AuditLogger for the
\* process (whose __init__ resets the logs and rewrites audit.json) and calls
\* log_error on it; the logger process_task opened (old) is not used
HandlerLog(old) == LogError(InitLog)

\* lines 314-318 of the except clause
HandlerAudit(w) ==
    /\ program = "worker"
    /\ pc[w] = "h_audit"
    /\ auditMem' = [auditMem EXCEPT ![w] = HandlerLog(auditMem[w])]
    /\ auditFile' = Put(auditFile, task[w], HandlerLog(auditMem[w]))
    /\ pc' = [pc EXCEPT ![w] = "h_update"]
    /\ UNCHANGED <<program, ledgerVars, integrity, thrown, result, started, now, tasks, results, created, task, current_task, running, stage, err, manifestFile, reportFile, calls, webVars>>

\* (mutant) an except clause that leaves the task in processing
FailureStatusStillProcessing == "processing"

\* the status the except clause sets
FailureStatus == "failed"

\* (mutant) a failure that ends the worker process
AfterFailureTerminates == "exited"

\* where control goes when the except clause is done: process_task returns
\* to Worker.run, line 123
AfterFailure == "clear"

\* line 321: update_task_status(task_id, "failed", 100, f"Erreur: {str(e)}");
\* process_task returns and its locals are gone
HandlerUpdate(w) ==
    /\ program = "worker"
    /\ pc[w] = "h_update"
    /\ tasks' = UpdateTaskStatus(tasks, task[w], FailureStatus, 100, <<"Erreur: ", err[w]>>)
    /\ pc' = [pc EXCEPT ![w] = AfterFailure]
    /\ stage' = [stage EXCEPT ![w] = 0]
    /\ err' = [err EXCEPT ![w] = ""]
    /\ auditMem' = [auditMem EXCEPT ![w] = None]
    /\ UNCHANGED <<program, ledgerVars, started, now, results, created, task, current_task, running, storeVars, webVars>>

\* line 123: self.current_task = None, then the while condition (the local
\* task is dead here: the next find_one_and_update assigns it)
ClearCurrent(w) ==
    /\ program = "worker"
    /\ pc[w] = "clear"
    /\ current_task' = [current_task EXCEPT ![w] = None]
    /\ task' = [task EXCEPT ![w] = None]
    /\ pc' = [pc EXCEPT ![w] = IF running[w] THEN "poll" ELSE "exited"]
    /\ UNCHANGED <<program, ledgerVars, started, now, tasks, results, created, running, stage, err, auditMem, storeVars, webVars>>

\* ------------------------------------------------------------------------
\* Worker.handle_shutdown: SIGINT / SIGTERM, delivered between any two steps
\* ------------------------------------------------------------------------
\* sys.exit(0) raises SystemExit where the main thread stands. "except
\* Exception" does not catch it, the bare "except:" of lines 314-318 does: a
\* signal delivered there is swallowed and process_task goes on to line 321.
AfterSignal(at) == IF at = "h_audit" THEN {"exited", "h_update"} ELSE {"exited"}

\* the handler; when the process exits its memory is gone
handle_shutdown(w) ==
    /\ program = "worker"
    /\ pc[w] \notin {"exited", "crashed"}
    /\ running[w]
    /\ running' = [running EXCEPT ![w] = FALSE]
    /\ tasks' = IF current_task[w] # None THEN MarkInterrupted(tasks, current_task[w]) ELSE tasks
    /\ \E next \in AfterSignal(pc[w]) :
        /\ pc' = [pc EXCEPT ![w] = next]
        /\ IF next = "exited"
           THEN /\ task' = [task EXCEPT ![w] = None]
                /\ current_task' = [current_task EXCEPT ![w] = None]
                /\ stage' = [stage EXCEPT ![w] = 0]
                /\ err' = [err EXCEPT ![w] = ""]
                /\ auditMem' = [auditMem EXCEPT ![w] = None]
           ELSE UNCHANGED <<task, current_task, stage, err, auditMem>>
    /\ UNCHANGED <<program, ledgerVars, started, now, results, created, storeVars, webVars>>

\* ------------------------------------------------------------------------
\* A crash with no signal (SIGKILL, power loss): the process stops wherever it
\* stands. No handler runs, so nothing is written to the store, and the
\* process's memory is gone.
\* ------------------------------------------------------------------------
Crash(w) ==
    /\ program = "worker"
    /\ pc[w] \notin {"exited", "crashed"}
    /\ pc' = [pc EXCEPT ![w] = "crashed"]
    /\ running' = [running EXCEPT ![w] = FALSE]
    /\ task' = [task EXCEPT ![w] = None]
    /\ current_task' = [current_task EXCEPT ![w] = None]
    /\ stage' = [stage EXCEPT ![w] = 0]
    /\ err' = [err EXCEPT ![w] = ""]
    /\ auditMem' = [auditMem EXCEPT ![w] = None]
    /\ UNCHANGED <<program, ledgerVars, started, now, tasks, results, created, storeVars, webVars>>

\* ------------------------------------------------------------------------
\* External cancel request on a Task (the Task store's other writer)
\* ------------------------------------------------------------------------
ExternalCancel(i) ==
    /\ program = "worker"
    /\ i \in 1..Len(tasks)
    /\ tasks[i].status \in {"pending", "processing"}
    /\ tasks' = [tasks EXCEPT ![i].status = "cancelled"]
    /\ UNCHANGED <<program, ledgerVars, started, now, results, created, pc, task, current_task, running, stage, err, auditMem, storeVars, webVars>>

NextWorker ==
    \/ \E url \in Urls, publish \in BOOLEAN, priority \in Priorities : create_task(url, publish, priority)
    \/ \E w \in Workers : Lease(w)
    \/ \E w \in Workers : Wake(w)
    \/ \E w \in Workers : BeginTask(w)
    \/ \E w \in Workers : Stage(w)
    \/ \E w \in Workers : Finalize(w)
    \/ \E w \in Workers : Complete(w)
    \/ \E w \in Workers : HandlerAudit(w)
    \/ \E w \in Workers : HandlerUpdate(w)
    \/ \E w \in Workers : ClearCurrent(w)
    \/ \E w \in Workers : handle_shutdown(w)
    \/ \E w \in Workers : Crash(w)
    \/ \E i \in 1..MaxLoad : ExternalCancel(i)

\* ------------------------------------------------------------------------
\* Web layer (src/src/web/app.py). The HTTP handlers and the background
\* pipeline are taken to interleave at the pipeline's statements: the cancel
\* check of update_process_status exists for a cancel that arrives while the
\* pipeline runs.
\* ------------------------------------------------------------------------
Pids == 1..MaxProcs

\* POST /api/convert: registers the process (a fresh uuid4, here the next
\* index) and schedules process_conversion as a background task
convert_video(publish) ==
    /\ program = "web"
    /\ Len(active_processes) < MaxProcs
    /\ active_processes' = Append(active_processes,
            [status |-> "initializing", progress |-> 0, current_stage |-> "initialisation",
             error |-> "", publish |-> publish])
    /\ wpc' = Append(wpc, "start")
    /\ wstage' = Append(wstage, 0)
    /\ werr' = Append(werr, "")
    /\ wauditMem' = Append(wauditMem, None)
    /\ cancelInfo' = Append(cancelInfo, [at |-> "none", stage |-> 0, checked |-> FALSE])
    /\ UNCHANGED <<program, ledgerVars, started, now, workerVars, storeVars, resp>>

\* the process ids a cancel request may carry: the path parameter is any
\* string, so besides the registered ids there is always an unknown one (404)
RequestIds == Pids \cup {MaxProcs + 1}

\* the statuses on which cancel_conversion answers 400
CancelRefused == {"completed", "failed"}

\* DELETE /api/cancel/{process_id}
cancel_conversion(p) ==
    /\ program = "web"
    /\ IF p \notin DOMAIN active_processes
       THEN /\ resp' = [op |-> "cancel", pid |-> p, code |-> 404, body |-> None]
            /\ UNCHANGED <<active_processes, cancelInfo>>
       ELSE IF active_processes[p].status \in CancelRefused
       THEN /\ resp' = [op |-> "cancel", pid |-> p, code |-> 400, body |-> None]
            /\ UNCHANGED <<active_processes, cancelInfo>>
       ELSE /\ resp' = [op |-> "cancel", pid |-> p, code |-> 200, body |-> None]
            /\ active_processes' = [active_processes EXCEPT ![p].status = "cancelled",
                    ![p].progress = 100, ![p].current_stage = "annulation"]
            /\ cancelInfo' = IF cancelInfo[p].at = "none"
                             THEN [cancelInfo EXCEPT ![p] = [at |-> wpc[p], stage |-> wstage[p], checked |-> FALSE]]
                             ELSE cancelInfo
    /\ UNCHANGED <<program, ledgerVars, started, now, workerVars, storeVars, wpc, wstage, werr, wauditMem>>

\* (mutant) a result retrieval that does not look at the status
ResultsRefusedNever(status) == FALSE

\* the statuses on which get_results answers 400
ResultsRefused(status) == status # "completed"

\* GET /api/results/{process_id}: 404 for an unknown id, 400 unless the status
\* is completed; then final_report.json is read and returned, and a missing
\* file ends in a 500 (the HTTPException(404) raised inside the try block is
\* caught by its own except clause)
get_results(p) ==
    /\ program = "web"
    /\ resp' = IF p \notin DOMAIN active_processes
               THEN [op |-> "results", pid |-> p, code |-> 404, body |-> None]
               ELSE IF ResultsRefused(active_processes[p].status)
               THEN [op |-> "results", pid |-> p, code |-> 400, body |-> None]
               ELSE IF p \notin DOMAIN reportFile
               THEN [op |-> "results", pid |-> p, code |-> 500, body |-> None]
               ELSE [op |-> "results", pid |-> p, code |-> 200, body |-> reportFile[p]]
    /\ UNCHANGED <<program, ledgerVars, started, now, workerVars, storeVars, active_processes, wpc, wstage, werr, wauditMem, cancelInfo>>

\* process_conversion lines 295-317: status = "processing" (unconditionally),
\* then the audit logger (log_start), the artifact manager and the validator
StartConversion(p) ==
    /\ program = "web"
    /\ p \in DOMAIN active_processes
    /\ wpc[p] = "start"
    /\ active_processes' = [active_processes EXCEPT ![p].status = "processing"]
    /\ wauditMem' = [wauditMem EXCEPT ![p] = LogStart(InitLog)]
    /\ auditFile' = Put(auditFile, p, LogStart(InitLog))
    /\ manifestFile' = Put(manifestFile, p, <<>>)
    /\ calls' = Put(calls, p, <<>>)
    /\ integrity' = Put(integrity, p, NewReport)
    /\ thrown' = Put(thrown, p, "")
    /\ result' = Put(result, p, EmptyResult)
    /\ wstage' = [wstage EXCEPT ![p] = 1]
    /\ wpc' = [wpc EXCEPT ![p] = "begin"]
    /\ UNCHANGED <<program, ledgerVars, started, now, workerVars, reportFile, werr, cancelInfo, resp>>

\* update_process_status: the cancel check
SeesCancel(proc) == proc.status = "cancelled"

\* update_process_status: the assignments made when the check passes
UpdateProcessStatus(ap, p, status, progress, current_stage) ==
    [ap EXCEPT ![p].status = status, ![p].progress = progress, ![p].current_stage = current_stage]

\* a call of update_process_status is a checkpoint: note that one was reached
\* after a cancel was accepted
Checkpoint(ci, p) == IF ci[p].at # "none" THEN [ci EXCEPT ![p].checked = TRUE] ELSE ci

\* the update_process_status call that opens a stage: raises ValueError when
\* the status is cancelled, else writes status, progress and stage
WebStageBegin(p) ==
    /\ program = "web"
    /\ p \in DOMAIN active_processes
    /\ wpc[p] = "begin"
    /\ cancelInfo' = Checkpoint(cancelInfo, p)
    /\ IF SeesCancel(active_processes[p])
       THEN /\ werr' = [werr EXCEPT ![p] = CancelError]
            /\ wpc' = [wpc EXCEPT ![p] = "handler"]
            /\ active_processes' = active_processes
       ELSE /\ werr' = werr
            /\ wpc' = [wpc EXCEPT ![p] = "run"]
            /\ active_processes' = UpdateProcessStatus(active_processes, p, WebStageStatus[wstage[p]],
                    TaskProgress[wstage[p]], TaskStageMessage[wstage[p]])
    /\ UNCHANGED <<program, ledgerVars, started, now, workerVars, storeVars, wstage, wauditMem, resp>>

\* the stage collaborator runs, then its artifact is hashed and recorded
WebStageRun(p) ==
    /\ program = "web"
    /\ p \in DOMAIN active_processes
    /\ wpc[p] = "run"
    /\ calls' = Put(calls, p, Append(calls[p], StageNames[wstage[p]]))
    /\ \E outcome \in StageOutcomes(wstage[p]) :
        /\ integrity' = Put(integrity, p, RecordValidations(integrity[p], StageRecorded(wstage[p], outcome)))
        /\ thrown' = Put(thrown, p, StageException(wstage[p], outcome))
        /\ result' = Put(result, p, StageResult(wstage[p], outcome, result[p]))
        /\ IF StageException(wstage[p], outcome) = ""
           THEN /\ manifestFile' = Put(manifestFile, p, Append(manifestFile[p], StageNames[wstage[p]]))
                /\ wpc' = [wpc EXCEPT ![p] = IF AfterStage(wstage[p], active_processes[p].publish) = "stage"
                                              THEN "begin" ELSE "finalize"]
                /\ wstage' = [wstage EXCEPT ![p] = wstage[p] + 1]
                /\ werr' = werr
           ELSE /\ manifestFile' = manifestFile
                /\ wpc' = [wpc EXCEPT ![p] = "handler"]
                /\ wstage' = wstage
                /\ werr' = [werr EXCEPT ![p] = StageException(wstage[p], outcome)]
    /\ UNCHANGED <<program, ledgerVars, started, now, workerVars, auditFile, reportFile, active_processes, wauditMem, cancelInfo, resp>>

\* lines 411-433: save_final_report, log_completion
WebFinalize(p) ==
    /\ program = "web"
    /\ p \in DOMAIN active_processes
    /\ wpc[p] = "finalize"
    /\ reportFile' = Put(reportFile, p, FinalReport(active_processes[p].publish, result[p]))
    /\ wauditMem' = [wauditMem EXCEPT ![p] = LogCompletion(wauditMem[p])]
    /\ auditFile' = Put(auditFile, p, LogCompletion(wauditMem[p]))
    /\ wpc' = [wpc EXCEPT ![p] = "complete"]
    /\ UNCHANGED <<program, ledgerVars, integrity, thrown, result, started, now, workerVars, manifestFile, calls, active_processes, wstage, werr, cancelInfo, resp>>

\* line 436: update_process_status(process_id, "completed", 100, ...)
WebComplete(p) ==
    /\ program = "web"
    /\ p \in DOMAIN active_processes
    /\ wpc[p] = "complete"
    /\ cancelInfo' = Checkpoint(cancelInfo, p)
    /\ IF SeesCancel(active_processes[p])
       THEN /\ werr' = [werr EXCEPT ![p] = CancelError]
            /\ wpc' = [wpc EXCEPT ![p] = "handler"]
            /\ active_processes' = active_processes
       ELSE /\ werr' = werr
            /\ wpc' = [wpc EXCEPT ![p] = "done"]
            /\ active_processes' = UpdateProcessStatus(active_processes, p, "completed", 100, "Conversion terminee")
    /\ UNCHANGED <<program, ledgerVars, started, now, workerVars, storeVars, wstage, wauditMem, resp>>

\* the except clause, lines 438-451: log_error on the process's audit logger,
\* then status, error, progress and current_stage are overwritten
WebHandler(p) ==
    /\ program = "web"
    /\ p \in DOMAIN active_processes
    /\ wpc[p] = "handler"
    /\ wauditMem' = [wauditMem EXCEPT ![p] = LogError(wauditMem[p])]
    /\ auditFile' = Put(auditFile, p, LogError(wauditMem[p]))
    /\ active_processes' = [active_processes EXCEPT ![p].status = "failed", ![p].error = werr[p],
            ![p].progress = 100, ![p].current_stage = "erreur"]
    /\ wpc' = [wpc EXCEPT ![p] = "done"]
    /\ UNCHANGED <<program, ledgerVars, integrity, thrown, result, started, now, workerVars, manifestFile, reportFile, calls, wstage, werr, cancelInfo, resp>>

NextWeb ==
    \/ \E publish \in BOOLEAN : convert_video(publish)
    \/ \E p \in RequestIds : cancel_conversion(p)
    \/ \E p \in RequestIds : get_results(p)
    \/ \E p \in Pids : StartConversion(p)
    \/ \E p \in Pids : WebStageBegin(p)
    \/ \E p \in Pids : WebStageRun(p)
    \/ \E p \in Pids : WebFinalize(p)
    \/ \E p \in Pids : WebComplete(p)
    \/ \E p \in Pids : WebHandler(p)

\* a call of validate_process_chain on the chain at hand
validate_process_chain ==
    /\ program = "ledger"
    /\ chain_result = None
    /\ chain_result' = ValidateProcessChain(chain_data)
    /\ UNCHANGED <<program, started, now, workerVars, storeVars, webVars, chain_data, artifact_info, save_result, artifacts, archive_result, signed, verified, logs, json_log_file, log_file, audit_call, ledger_call, manifest, manifest_json, manager_call, run_loop>>

NextLedger == validate_process_chain

\* a call of save_file_info on the artifact_info at hand
save_file_info ==
    /\ program = "manifest"
    /\ save_result = None
    /\ save_result' = SaveFileInfo(artifact_info)
    /\ UNCHANGED <<program, started, now, workerVars, storeVars, webVars, chain_data, chain_result, artifact_info, artifacts, archive_result, signed, verified, logs, json_log_file, log_file, audit_call, ledger_call, manifest, manifest_json, manager_call, run_loop>>

NextManifest == save_file_info

\* a call of archive_artifacts on the manifest at hand
archive_artifacts ==
    /\ program = "archive"
    /\ archive_result = None
    /\ archive_result' = ArchiveArtifacts(artifacts)
    /\ UNCHANGED <<program, started, now, workerVars, storeVars, webVars, chain_data, chain_result, artifact_info, save_result, artifacts, signed, verified, logs, json_log_file, log_file, audit_call, ledger_call, manifest, manifest_json, manager_call, run_loop>>

NextArchive == archive_artifacts

\* a call of create_integrity_signature
create_integrity_signature ==
    /\ program = "signature"
    /\ signed = None
    /\ \E data \in SignedValues, secret_key \in SecretKeys :
        signed' = [data |-> data, secret_key |-> secret_key, result |-> CreateIntegritySignature(data, secret_key)]
    /\ UNCHANGED <<program, started, now, workerVars, storeVars, webVars, chain_data, chain_result, artifact_info, save_result, artifacts, archive_result, verified, logs, json_log_file, log_file, audit_call, ledger_call, manifest, manifest_json, manager_call, run_loop>>

\* a later call of verify_integrity_signature, on any value, signature and key
verify_integrity_signature ==
    /\ program = "signature"
    /\ signed # None
    /\ verified = None
    /\ \E data \in SignedValues, signature \in Signatures, secret_key \in SecretKeys :
        verified' = [data |-> data, signature |-> signature, secret_key |-> secret_key,
                     result |-> VerifyIntegritySignature(data, signature, secret_key)]
    /\ UNCHANGED <<program, started, now, workerVars, storeVars, webVars, chain_data, chain_result, artifact_info, save_result, artifacts, archive_result, signed, logs, json_log_file, log_file, audit_call, ledger_call, manifest, manifest_json, manager_call, run_loop>>

NextSignature == create_integrity_signature \/ verify_integrity_signature

\* the calls on the AuditLogger under test that can be made: none after the
\* process was killed
AuditCallable == program = "audit" /\ audit_call.raised # "killed"

\* AuditLogger(process_id): __init__ and _init_log; when the flush raises the
\* constructor raises and there is no logger object
AuditLogger ==
    /\ AuditCallable
    /\ logs = None
    /\ \E outcome \in WriteOutcomes :
        LET w == WriteLog(InitLog, json_log_file, log_file, outcome) IN
        /\ logs' = IF w.raised = "" THEN InitLog ELSE None
        /\ json_log_file' = w.json
        /\ log_file' = w.text
        /\ audit_call' = [op |-> "init", raised |-> w.raised]
    /\ UNCHANGED <<program, started, now, workerVars, storeVars, webVars, chain_data, chain_result, artifact_info, save_result, artifacts, archive_result, signed, verified, ledger_call, manifest, manifest_json, manager_call, run_loop>>

\* log_start and the other callers of log_event: append the event, flush
log_event(op, type) ==
    /\ AuditCallable
    /\ logs # None
    /\ Len(logs.events) < MaxEvents
    /\ \E outcome \in WriteOutcomes :
        LET w == WriteLog(LogEvent(logs, type), json_log_file, log_file, outcome) IN
        /\ logs' = LogEvent(logs, type)
        /\ json_log_file' = w.json
        /\ log_file' = w.text
        /\ audit_call' = [op |-> op, raised |-> w.raised]
    /\ UNCHANGED <<program, started, now, workerVars, storeVars, webVars, chain_data, chain_result, artifact_info, save_result, artifacts, archive_result, signed, verified, ledger_call, manifest, manifest_json, manager_call, run_loop>>

\* log_completion
log_completion ==
    /\ AuditCallable
    /\ logs # None
    /\ Len(logs.events) < MaxEvents
    /\ \E first \in WriteOutcomes, second \in WriteOutcomes :
        LET r == TwoFlushes(logs, "process_complete", "completed", json_log_file, log_file, first, second) IN
        /\ logs' = r.log
        /\ json_log_file' = r.json
        /\ log_file' = r.text
        /\ audit_call' = [op |-> "log_completion", raised |-> r.raised]
    /\ UNCHANGED <<program, started, now, workerVars, storeVars, webVars, chain_data, chain_result, artifact_info, save_result, artifacts, archive_result, signed, verified, ledger_call, manifest, manifest_json, manager_call, run_loop>>

\* log_error
log_error ==
    /\ AuditCallable
    /\ logs # None
    /\ Len(logs.events) < MaxEvents
    /\ \E first \in WriteOutcomes, second \in WriteOutcomes :
        LET r == TwoFlushes(logs, "error", "error", json_log_file, log_file, first, second) IN
        /\ logs' = r.log
        /\ json_log_file' = r.json
        /\ log_file' = r.text
        /\ audit_call' = [op |-> "log_error", raised |-> r.raised]
    /\ UNCHANGED <<program, started, now, workerVars, storeVars, webVars, chain_data, chain_result, artifact_info, save_result, artifacts, archive_result, signed, verified, ledger_call, manifest, manifest_json, manager_call, run_loop>>

NextAudit ==
    \/ AuditLogger
    \/ log_event("log_start", "process_start")
    \/ log_event("log_event", "validation")
    \/ log_completion
    \/ log_error

\* a call of generate_file_hash
generate_file_hash ==
    /\ program = "hasher"
    /\ ledger_call.op = "none"
    /\ \E path \in PathStates, file_hash \in Hashes :
        ledger_call' = [op |-> "generate_file_hash", path |-> path, file_hash |-> file_hash,
                        result |-> GenerateFileHash(path, file_hash)]
    /\ UNCHANGED <<program, started, now, workerVars, storeVars, webVars, chain_data, chain_result, artifact_info, save_result, artifacts, archive_result, signed, verified, logs, json_log_file, log_file, audit_call, manifest, manifest_json, manager_call, run_loop>>

\* a call of generate_data_hash
generate_data_hash ==
    /\ program = "hasher"
    /\ ledger_call.op = "none"
    /\ \E data \in SignedValues :
        ledger_call' = [op |-> "generate_data_hash", data |-> data, result |-> GenerateDataHash(data)]
    /\ UNCHANGED <<program, started, now, workerVars, storeVars, webVars, chain_data, chain_result, artifact_info, save_result, artifacts, archive_result, signed, verified, logs, json_log_file, log_file, audit_call, manifest, manifest_json, manager_call, run_loop>>

\* a call of validate_file_integrity
validate_file_integrity ==
    /\ program = "hasher"
    /\ ledger_call.op = "none"
    /\ \E path \in PathStates, file_hash \in Hashes, expected_hash \in Hashes :
        ledger_call' = [op |-> "validate_file_integrity", path |-> path, file_hash |-> file_hash,
                        expected_hash |-> expected_hash,
                        result |-> ValidateFileIntegrity(path, file_hash, expected_hash)]
    /\ UNCHANGED <<program, started, now, workerVars, storeVars, webVars, chain_data, chain_result, artifact_info, save_result, artifacts, archive_result, signed, verified, logs, json_log_file, log_file, audit_call, manifest, manifest_json, manager_call, run_loop>>

NextHasher == generate_file_hash \/ generate_data_hash \/ validate_file_integrity

\* the effect of one ArtifactManager call on the manager under test
ManagerCall(op, r) ==
    /\ manifest' = r.manifest
    /\ manifest_json' = r.json
    /\ manager_call' = [op |-> op, raised |-> r.raised]
    /\ UNCHANGED <<program, started, now, workerVars, storeVars, webVars, chain_data, chain_result, artifact_info, save_result, artifacts, archive_result, signed, verified, logs, json_log_file, log_file, audit_call, ledger_call, run_loop>>

\* save_file_info on the manager under test
manager_save_file_info ==
    /\ program = "manager"
    /\ Len(manifest.artifacts) < MaxArtifacts
    /\ \E info \in Infos, outcome \in SaveOutcomes :
        ManagerCall("save_file_info", RecordInManifest(manifest, manifest_json, info, outcome))

\* copy_artifact
copy_artifact ==
    /\ program = "manager"
    /\ Len(manifest.artifacts) < MaxArtifacts
    /\ \E path \in PathStates, outcome \in SaveOutcomes :
        ManagerCall("copy_artifact", RecordAfterTransfer(manifest, manifest_json, path, CopyInfo, outcome, CopyError))

\* upload_to_s3
upload_to_s3 ==
    /\ program = "manager"
    /\ Len(manifest.artifacts) < MaxArtifacts
    /\ \E path \in PathStates, outcome \in SaveOutcomes :
        ManagerCall("upload_to_s3", RecordAfterTransfer(manifest, manifest_json, path, UploadInfo, outcome, UploadError))

\* archive_artifacts on the manager under test
manager_archive_artifacts ==
    /\ program = "manager"
    /\ Len(manifest.artifacts) < MaxArtifacts
    /\ \E m \in Manifests, outcome \in SaveOutcomes :
        /\ Len(m) = Len(manifest.artifacts)
        /\ ManagerCall("archive_artifacts",
                RecordAfterTransfer(manifest, manifest_json, "file", ArchiveInfo(m), outcome, ArchiveError))

\* save_final_report
save_final_report ==
    /\ program = "manager"
    /\ \E report \in FinalReports, report_write \in SaveOutcomes, outcome \in SaveOutcomes :
        ManagerCall("save_final_report", SaveFinalReport(manifest, manifest_json, report, report_write, outcome))

NextManager ==
    \/ manager_save_file_info
    \/ copy_artifact
    \/ upload_to_s3
    \/ manager_archive_artifacts
    \/ save_final_report

\* the frame of a step of the loop under test
LoopStep(l) ==
    /\ program = "loop"
    /\ run_loop' = l
    /\ UNCHANGED <<program, started, now, workerVars, storeVars, webVars, chain_data, chain_result, artifact_info, save_result, artifacts, archive_result, signed, verified, logs, json_log_file, log_file, audit_call, ledger_call, manifest, manifest_json, manager_call>>

\* the while loop polls
LoopLease ==
    /\ run_loop.pc = "poll"
    /\ \E store_up \in BOOLEAN : LoopStep(LeaseAttempt(run_loop, store_up))

\* process_task ends
LoopProcess ==
    /\ run_loop.pc = "process"
    /\ \E outcome \in ProcessOutcomes : LoopStep(ProcessTask(run_loop, outcome))

\* asyncio.sleep returns
LoopWake ==
    /\ run_loop.pc \in {"sleep", "error_sleep"}
    /\ LoopStep([run_loop EXCEPT !.pc = "poll"])

\* SIGINT or SIGTERM is delivered
LoopSignal ==
    /\ run_loop.pc # "exited"
    /\ LoopStep(Shutdown(run_loop))

NextLoop == LoopLease \/ LoopProcess \/ LoopWake \/ LoopSignal

Next == NextWorker \/ NextWeb \/ NextLedger \/ NextManifest \/ NextArchive \/ NextSignature \/ NextAudit \/ NextHasher \/ NextManager \/ NextLoop

Spec == Init /\ [][Next]_vars

\* the except clause and the return to the loop are straight-line code of a
\* single-threaded process with no blocking call: a worker that stands there
\* goes on
HandlerProgress(w) == HandlerAudit(w) \/ HandlerUpdate(w) \/ ClearCurrent(w)

FairSpec == Spec /\ \A w \in Workers : WF_vars(HandlerProgress(w))

\* process_task is straight-line code between collaborator calls: when every
\* collaborator call returns or raises and the store answers, a worker that
\* stands anywhere in process_task (or in its except clause) goes on
PipelineProgress(w) ==
    BeginTask(w) \/ Stage(w) \/ Finalize(w) \/ Complete(w) \/ HandlerProgress(w)

PipelineFairSpec == Spec /\ \A w \in Workers : WF_vars(PipelineProgress(w))

\* Worker.run is a loop with no blocking call other than the sleep, which
\* returns: a worker that is not stopped goes on polling, waking up and
\* processing
LoopProgress(w) == Lease(w) \/ Wake(w) \/ PipelineProgress(w)

LoopFairSpec == Spec /\ \A w \in Workers : WF_vars(LoopProgress(w))

\* ========================================================================
\* Properties
\* ========================================================================
TaskFrameEqual(a, b) == a.status = b.status /\ a.progress = b.progress /\ a.message = b.message

\* a live worker holds the task it leased from the lease until it clears it
Holds(w, id) == pc[w] \notin {"exited", "crashed"} /\ (task[w] = id \/ current_task[w] = id)

\* C1: a pending Task is handed to at most one worker: in every reachable state
\* at most one worker holds a given Task, and a Task that is held is no longer
\* pending (so a second lease racing the first receives none).
C1_AtMostOneHolder ==
    \A i \in 1..Len(tasks) :
        /\ Cardinality({w \in Workers : Holds(w, tasks[i].id)}) <= 1
        /\ (\E w \in Workers : Holds(w, tasks[i].id)) => tasks[i].status # "pending"

\* two workers polled the store holding a single Task: one received it, the
\* other received none and sleeps
C1_RaceWitness ==
    \E w1 \in Workers, w2 \in Workers :
        /\ w1 # w2
        /\ Len(tasks) = 1
        /\ pc[w1] = "assign" /\ task[w1] = tasks[1].id /\ tasks[1].worker_id = w1
        /\ pc[w2] = "sleep" /\ task[w2] = None

\* C2: the Task a lease returns was, when claimed, pending, of the highest
\* priority among the pending Tasks, and among those of its priority the one
\* created first and submitted first.
C2_LeaseOrder ==
    [][\A w \in Workers :
        (pc[w] = "poll" /\ pc'[w] = "assign") =>
            LET k == FirstMatch(tasks, task'[w]) IN
            /\ tasks[k].status = "pending"
            /\ \A j \in 1..Len(tasks) :
                tasks[j].status = "pending" =>
                    /\ tasks[j].priority <= tasks[k].priority
                    /\ tasks[j].priority = tasks[k].priority =>
                        (tasks[k].created_at <= tasks[j].created_at /\ k <= j)]_vars

\* a priority-5 Task created later was leased while the priority-1 Task created
\* before it is still pending
C2_PriorityWitness ==
    \E i \in 1..Len(tasks), j \in 1..Len(tasks) :
        /\ tasks[i].priority = 1 /\ tasks[j].priority = 5
        /\ tasks[i].created_at < tasks[j].created_at
        /\ tasks[i].status = "pending"
        /\ \E w \in Workers : pc[w] = "assign" /\ task[w] = tasks[j].id

\* the analysis collaborator was invoked for process p and raised
AnalysisFailed(p) ==
    /\ p \in DOMAIN calls
    /\ Len(calls[p]) >= 2
    /\ "analysis" \notin Range(manifestFile[p])

\* the worker that leased tasks[i] is still inside the except clause
InHandler(i) == \E w \in Workers : task[w] = tasks[i].id /\ pc[w] \in {"h_audit", "h_update"}

\* C5: when the analysis collaborator raises, no later collaborator is ever
\* invoked for the Task, and once the except clause has run (the worker not
\* having been shut down by a signal) the Task is failed with the failure
\* message and the persisted audit record has status error; the same for a
\* web process.
C5_AnalysisFailure ==
    /\ \A i \in 1..Len(tasks) :
        AnalysisFailed(tasks[i].id) =>
            /\ calls[tasks[i].id] = <<"acquisition", "analysis">>
            /\ (~InHandler(i) /\ running[tasks[i].worker_id]) =>
                /\ tasks[i].status = "failed"
                /\ tasks[i].message = <<"Erreur: ", StageError(2)>>
                /\ auditFile[tasks[i].id].status = "error"
    /\ \A p \in DOMAIN active_processes :
        AnalysisFailed(p) =>
            /\ calls[p] = <<"acquisition", "analysis">>
            /\ wpc[p] = "done" =>
                /\ active_processes[p].status = "failed"
                /\ active_processes[p].error = StageError(2)
                /\ auditFile[p].status = "error"

\* a Task whose analysis raised ended failed with audit status error
C5_FailureWitness ==
    \E i \in 1..Len(tasks) :
        /\ AnalysisFailed(tasks[i].id)
        /\ ~InHandler(i)
        /\ running[tasks[i].worker_id]
        /\ tasks[i].status = "failed"
        /\ auditFile[tasks[i].id].status = "error"

\* C3: a cancel accepted while the editing stage is in flight: editing finishes,
\* adapting is never started, and the process ends cancelled with progress 40
\* and no adaptation, optimization or publication entry in the manifest.
C3_CancelMidEditing ==
    \A p \in DOMAIN active_processes :
        (/\ cancelInfo[p].at = "run" /\ cancelInfo[p].stage = 3
         /\ "editing" \in Range(manifestFile[p])
         /\ wpc[p] = "done") =>
            /\ active_processes[p].status = "cancelled"
            /\ active_processes[p].progress = 40
            /\ "adaptation" \notin Range(calls[p])
            /\ Range(manifestFile[p]) \cap {"adaptation", "optimization", "publication"} = {}

\* C4: terminal states are sticky: no step changes the status, progress or
\* stage (message) of a Task or process whose status is completed, failed or
\* cancelled.
C4_TerminalSticky ==
    [][/\ \A i \in 1..Len(tasks) :
            tasks[i].status \in TerminalStatuses => TaskFrameEqual(tasks'[i], tasks[i])
       /\ \A p \in DOMAIN active_processes :
            active_processes[p].status \in TerminalStatuses =>
                /\ active_processes'[p].status = active_processes[p].status
                /\ active_processes'[p].progress = active_processes[p].progress
                /\ active_processes'[p].current_stage = active_processes[p].current_stage]_vars

\* C6: a cancel accepted while the process is not terminal sets the status to
\* cancelled, and once the pipeline has reached a checkpoint (a status update)
\* after the cancel was accepted it invokes no further stage collaborator.
C6_CancelHalts ==
    [][\A p \in DOMAIN active_processes :
        /\ (cancel_conversion(p) /\ active_processes[p].status \notin TerminalStatuses) =>
                active_processes'[p].status = "cancelled"
        /\ (cancelInfo[p].at # "none" /\ cancelInfo[p].checked) => calls'[p] = calls[p]]_vars

\* C7: once the stored status of a leased Task has been set to cancelled, the
\* worker's next status update leaves it cancelled and no further stage
\* collaborator is invoked for the Task.
C7_WorkerHonoursCancel ==
    [][\A i \in 1..Len(tasks) :
        (tasks[i].status = "cancelled" /\ tasks[i].id \in DOMAIN calls) =>
            /\ tasks'[i].status = "cancelled"
            /\ calls'[tasks[i].id] = calls[tasks[i].id]]_vars

\* C8: a cancel issued when the status is completed, failed or cancelled is
\* rejected and leaves status, progress and current stage unchanged.
C8_CancelRejectedWhenTerminal ==
    [][\A p \in DOMAIN active_processes :
        (cancel_conversion(p) /\ active_processes[p].status \in TerminalStatuses) =>
            /\ resp'.code = 400
            /\ active_processes'[p] = active_processes[p]]_vars

\* C9: the persisted audit events of a process only grow by appending: every
\* step leaves the events already persisted in place, as a prefix.
C9_AuditAppendOnly ==
    [][\A p \in DOMAIN auditFile :
        /\ p \in DOMAIN auditFile'
        /\ IsPrefix(auditFile[p].events, auditFile'[p].events)]_vars

\* C10: every create_task call inserts exactly one new pending Task with
\* progress 0 under an id no existing Task has, leaves the existing Tasks
\* unchanged and returns that id.
C10_SubmitInsertsOne ==
    [][(created'.calls = created.calls + 1) =>
        /\ Len(tasks') = Len(tasks) + 1
        /\ \A i \in 1..Len(tasks) : tasks'[i] = tasks[i]
        /\ tasks'[Len(tasks')].status = "pending"
        /\ tasks'[Len(tasks')].progress = 0
        /\ tasks'[Len(tasks')].id \notin TaskIds
        /\ created'.id = tasks'[Len(tasks')].id]_vars

\* a step of worker w: any statement of Worker.run / process_task, or its
\* signal handler
WorkerStep(w) ==
    \/ Lease(w) \/ Wake(w) \/ BeginTask(w) \/ Stage(w) \/ Finalize(w) \/ Complete(w)
    \/ HandlerAudit(w) \/ HandlerUpdate(w) \/ ClearCurrent(w) \/ handle_shutdown(w)

\* C11: no step removes a Task or changes its identity and parameters, and a
\* step that changes a Task is either an external cancel of that Task or a
\* step of the worker that leased it (the lease included).
C11_OnlyLeaseholderWrites ==
    [][/\ Len(tasks') >= Len(tasks)
       /\ \A i \in 1..Len(tasks) :
            /\ tasks'[i].id = tasks[i].id
            /\ tasks'[i].url = tasks[i].url
            /\ tasks'[i].priority = tasks[i].priority
            /\ tasks'[i].created_at = tasks[i].created_at
            /\ tasks'[i] # tasks[i] =>
                \/ ExternalCancel(i)
                \/ \E w \in Workers :
                    /\ WorkerStep(w)
                    /\ tasks'[i].worker_id = w
                    /\ task'[w] = tasks[i].id \/ task[w] = tasks[i].id]_vars

\* a worker has advanced the Task it leased to the analysis stage while another
\* Task, which nobody leased, still carries what its submission wrote
C11_WriteWitness ==
    \E i \in 1..Len(tasks), j \in 1..Len(tasks) :
        /\ tasks[i].worker_id \in Workers /\ tasks[i].progress = 20
        /\ tasks[j].worker_id = 0 /\ tasks[j].status = "pending" /\ tasks[j].progress = 0

\* C12: a shutdown signal delivered to a worker that holds a leased Task in
\* processing sets that Task to interrupted and the worker exits at once; a
\* worker that received the signal writes no Task afterwards; a signal
\* delivered to a worker that holds no Task changes no Task.
C12_SignalInterrupts ==
    [][\A w \in Workers :
        /\ handle_shutdown(w) =>
            IF task[w] # None
            THEN \A i \in 1..Len(tasks) :
                    (tasks[i].id = task[w] /\ tasks[i].status = "processing") =>
                        /\ tasks'[i].status = "interrupted"
                        /\ pc'[w] = "exited"
            ELSE tasks' = tasks
        /\ (~running[w] /\ WorkerStep(w)) => tasks' = tasks]_vars

\* the worker that leased tasks[i] crashed while the Task was in processing
CrashedHolder(i) ==
    /\ tasks[i].status = "processing"
    /\ tasks[i].worker_id \in Workers
    /\ pc[tasks[i].worker_id] = "crashed"

\* C13: a Task in processing whose leasing worker crashed is never leased by
\* another worker and never moved to pending, failed, interrupted or completed:
\* every step leaves it in processing under the same leaseholder (an external
\* cancel apart), and the crashed worker never runs again.
C13_CrashLeavesProcessing ==
    [][\A i \in 1..Len(tasks) :
        CrashedHolder(i) =>
            /\ tasks'[i].status \in {"processing", "cancelled"}
            /\ tasks'[i].worker_id = tasks[i].worker_id
            /\ tasks'[i].progress = tasks[i].progress
            /\ pc'[tasks[i].worker_id] = "crashed"]_vars

\* a worker crashed in the middle of a stage and, later, the other worker polled
\* the store and found nothing to lease: the Task is still in processing
C13_StuckWitness ==
    \E i \in 1..Len(tasks), w \in Workers :
        /\ CrashedHolder(i)
        /\ tasks[i].progress = 20
        /\ w # tasks[i].worker_id
        /\ pc[w] = "sleep"

\* the last stage collaborator invoked for this process raised
StageRaised(id) == id \in DOMAIN thrown /\ thrown[id] = StageError(Len(calls[id]))

\* once the except clause has run for a Task whose stage raised (the worker
\* being neither signalled nor crashed), the Task is failed with the message
\* and the persisted audit record holds the error
C14_FailureRecorded ==
    \A i \in 1..Len(tasks) :
        (StageRaised(tasks[i].id) /\ ~InHandler(i) /\ running[tasks[i].worker_id]) =>
            /\ tasks[i].status = "failed"
            /\ tasks[i].progress = 100
            /\ tasks[i].message = <<"Erreur: ", StageError(Len(calls[tasks[i].id]))>>
            /\ auditFile[tasks[i].id].status = "error"
            /\ "error" \in Range(auditFile[tasks[i].id].events)

\* C14: a failure raised by a stage collaborator is recorded in the audit
\* trail and sets the Task to failed with the message, and the worker does not
\* terminate because of it: unless a signal or a crash stops it, a worker that
\* entered the except clause eventually polls the store again.
C14_StageFailureNotFatal ==
    /\ []C14_FailureRecorded
    /\ \A w \in Workers : [](pc[w] = "h_audit" => <>(pc[w] = "poll" \/ ~running[w]))

\* after the Task it leased failed at a stage, the worker polled again and
\* received another Task
C14_NextLeaseWitness ==
    \E i \in 1..Len(tasks), w \in Workers :
        /\ StageRaised(tasks[i].id)
        /\ tasks[i].status = "failed" /\ tasks[i].worker_id = w
        /\ running[w] /\ pc[w] = "assign" /\ task[w] # tasks[i].id

\* C15: result retrieval answers 200 only when the process is registered with
\* status completed, its body is then the final report persisted for that
\* process, and in every other status the request is refused.
C15_ResultsOnlyWhenCompleted ==
    [][\A p \in RequestIds :
        get_results(p) =>
            /\ resp'.code = 200 =>
                /\ p \in DOMAIN active_processes
                /\ active_processes[p].status = "completed"
                /\ p \in DOMAIN reportFile
                /\ resp'.body = reportFile[p]
            /\ (p \in DOMAIN active_processes /\ active_processes[p].status # "completed") =>
                resp'.code = 400]_vars

\* the results of a completed process were retrieved
C15_RetrievedWitness ==
    /\ resp # None
    /\ resp.op = "results" /\ resp.code = 200
    /\ active_processes[resp.pid].status = "completed"
    /\ resp.body = reportFile[resp.pid]

\* a chain whose only defect is the link of element i (i > 1): every element
\* has the required keys, every embedded payload matches its digest, every
\* other element quotes the digest of the element before it, and element i
\* quotes a different one
BrokenOnlyAt(cd, i) ==
    /\ i \in 2..Len(cd)
    /\ \A j \in 1..Len(cd) : HasRequiredFields(cd[j]) /\ HashValid(cd[j]) # "false"
    /\ cd[1].previous_hash = Absent
    /\ \A j \in 2..Len(cd) : j # i => cd[j].previous_hash = cd[j - 1].data_hash
    /\ cd[i].previous_hash \notin {Absent, cd[i - 1].data_hash}

\* C16 as stated: on a chain broken only at element i, validate_process_chain
\* returns False, marks no element before i invalid and marks element i and
\* every element after it invalid.
C16_InvalidFromBreakOnward ==
    \A i \in 1..MaxChain :
        (chain_result # None /\ BrokenOnlyAt(chain_data, i)) =>
            /\ ~chain_result.returned
            /\ \A j \in 1..Len(chain_data) :
                IF j < i THEN chain_result.results[j].is_valid
                ELSE ~chain_result.results[j].is_valid

\* C16 amended: on a chain broken only at element i, validate_process_chain
\* returns False and marks element i, and no other element, invalid: the
\* elements after i are judged on their own link and are marked valid.
C16_InvalidAtBreakOnly ==
    \A i \in 1..MaxChain :
        (chain_result # None /\ BrokenOnlyAt(chain_data, i)) =>
            /\ ~chain_result.returned
            /\ \A j \in 1..Len(chain_data) :
                chain_result.results[j].is_valid <=> j # i

\* a chain of three elements broken only at the second was validated
C16_BrokenChainWitness ==
    /\ chain_result # None
    /\ Len(chain_data) = 3
    /\ BrokenOnlyAt(chain_data, 2)
    /\ ~chain_result.returned

\* the digest element j is linked against: the data_hash of the nearest
\* element before j that has the required keys, if there is one
LastDigestBefore(cd, j) ==
    LET E == {k \in 1..(j - 1) : HasRequiredFields(cd[k])} IN
    IF E = {} THEN Absent ELSE cd[CHOOSE k \in E : \A m \in E : m <= k].data_hash

\* the checks performed on element j all pass: the payload check when a payload
\* is embedded, the link check when the element quotes a digest and there is
\* one to compare it with
PerformedChecksPass(cd, j) ==
    /\ cd[j].data # Absent => DataHash(cd[j].data) = cd[j].data_hash
    /\ (cd[j].previous_hash # Absent /\ LastDigestBefore(cd, j) # Absent) =>
            cd[j].previous_hash = LastDigestBefore(cd, j)

\* C17 as stated: the value returned is the conjunction, over the elements
\* that have the required keys, of the checks performed on them; elements
\* without the required keys do not enter it (stated for a chain that is not
\* empty).
C17_ConjunctionOverEligible ==
    (chain_result # None /\ Len(chain_data) > 0) =>
        (chain_result.returned <=>
            \A j \in 1..Len(chain_data) :
                HasRequiredFields(chain_data[j]) => PerformedChecksPass(chain_data, j))

\* C17 amended: the value returned is True exactly when the chain is not
\* empty, every element has the required keys and every check performed on
\* an element passes; a check that is not applicable is skipped, but an element
\* without the required keys makes the result False.
C17_ConjunctionOverAll ==
    chain_result # None =>
        (chain_result.returned <=>
            /\ Len(chain_data) > 0
            /\ \A j \in 1..Len(chain_data) :
                HasRequiredFields(chain_data[j]) /\ PerformedChecksPass(chain_data, j))

\* a chain of three elements was validated whose second element lacks a
\* required key while the checks performed on the other two pass (the third
\* with its link compared against the first): the result is False
C17_IneligibleWitness ==
    /\ chain_result # None
    /\ Len(chain_data) = 3
    /\ ~HasRequiredFields(chain_data[2])
    /\ HasRequiredFields(chain_data[1]) /\ PerformedChecksPass(chain_data, 1)
    /\ HasRequiredFields(chain_data[3]) /\ PerformedChecksPass(chain_data, 3)
    /\ chain_data[3].previous_hash = chain_data[1].data_hash
    /\ ~chain_result.returned

\* the persisted layout of a process: a manifest, the audit document pair
\* (_write_log writes the structured and the readable file together), an
\* integrity report and a final report
PersistedLayout(id) ==
    /\ id \in DOMAIN manifestFile
    /\ id \in DOMAIN auditFile
    /\ id \in DOMAIN integrity /\ integrity[id].report_file # None
    /\ id \in DOMAIN reportFile

\* C18: when a Task or a web process has status completed, storage holds its
\* manifest, its audit documents, its integrity report and its final report.
C18_CompletedLayout ==
    /\ \A i \in 1..Len(tasks) :
        (tasks[i].status = "completed" /\ tasks[i].progress = 100) => PersistedLayout(tasks[i].id)
    /\ \A p \in DOMAIN active_processes :
        active_processes[p].status = "completed" => PersistedLayout(p)

\* C19: save_file_info called with an artifact_info of which some value is the
\* path of an existing regular file returns normally and appends exactly one
\* entry, which carries a digested sub-object for every such field.
C19_RecordExpandsFiles ==
    (save_result # None /\ \E k \in DOMAIN artifact_info.fields : artifact_info.fields[k].value = "file") =>
        /\ save_result.raised = ""
        /\ Len(save_result.appended) = 1
        /\ \A k \in DOMAIN artifact_info.fields :
            artifact_info.fields[k].value = "file" => k \in save_result.appended[1].expanded

\* the exceptions raised while recording: by the integrity ledger when it
\* hashes an artifact, by the manifest when it records one
RecordingErrors == {HashError, RecordError}

\* C20: a failure while recording never aborts the pipeline: no Task and no
\* web process is failed because the hashing or the recording of a stage's
\* artifact raised, and after such a failure the stages go on.
C20_RecordingNeverAborts ==
    /\ \A i \in 1..Len(tasks) :
        tasks[i].id \in DOMAIN thrown =>
            ~(thrown[tasks[i].id] \in RecordingErrors /\ tasks[i].status = "failed")
    /\ \A p \in DOMAIN active_processes :
        p \in DOMAIN thrown =>
            ~(thrown[p] \in RecordingErrors /\ active_processes[p].status = "failed")

\* exactly one of the files the manifest's entries reference was deleted
OneDeleted(m) == Cardinality({i \in DOMAIN m : m[i] = "nofile"}) = 1

\* C21: archive_artifacts called after one file a manifest entry references
\* was deleted succeeds: the bundle holds the manifest and every referenced
\* file that still exists, not the deleted one, and one archive entry is
\* recorded whose artifact_count is the number of entries before the call.
C21_ArchiveAfterDeletion ==
    (archive_result # None /\ OneDeleted(artifacts)) =>
        /\ archive_result.raised = ""
        /\ archive_result.bundle = {manifest_file} \cup {i \in DOMAIN artifacts : artifacts[i] = "file"}
        /\ Len(archive_result.appended) = 1
        /\ archive_result.appended[1].artifact_count = Len(artifacts)

\* the verification is given the value, the signature and the key of the
\* signing call
SameAsSigned ==
    /\ verified.data = signed.data
    /\ verified.signature = signed.result.signature
    /\ verified.secret_key = signed.secret_key

StatusOrder == <<"initializing", "downloading", "analyzing", "editing", "adapting", "optimizing", "publishing", "completed">>

StatusRank(status) ==
    IF status = "processing" THEN 1
    ELSE CHOOSE k \in 1..Len(StatusOrder) : StatusOrder[k] = status

\* the progress that goes with a status of the sequence
StatusProgress == <<0, 5, 20, 40, 60, 75, 90, 100>>

\* one move of a process's status that C23 allows
AllowedMove(old, new) ==
    \/ new.status = old.status
    \/ /\ old.status \notin TerminalStatuses
       /\ new.status \in {"failed", "cancelled"}
    \/ /\ old.status \notin TerminalStatuses
       /\ new.status \notin {"failed", "cancelled"}
       /\ \/ StatusRank(new.status) = StatusRank(old.status)
          \/ StatusRank(new.status) = StatusRank(old.status) + 1
          \/ old.status = "optimizing" /\ new.status = "completed"
       /\ new.status = "publishing" => old.publish
       /\ (old.status = "optimizing" /\ new.status = "completed") => ~old.publish
       /\ new.progress = StatusProgress[StatusRank(new.status)]

\* C23: the status of a process only moves along initializing, downloading
\* (5), analyzing (20), editing (40), adapting (60), optimizing (75),
\* publishing (90), completed (100), in that order, without skipping a stage
\* other than publishing and without moving backwards; publishing is entered
\* exactly when the publish flag is set; failed and cancelled are the only
\* other end states, and no status follows an end state.
C23_StatusSequence ==
    [][\A p \in DOMAIN active_processes :
            AllowedMove(active_processes[p], active_processes'[p])]_vars

\* C24: every status transition of a process is followed by an audit event,
\* one entry per transition, in order: when the status of a process is that
\* of stage k, the k - 1 transitions into the earlier stages' statuses have
\* each been followed by their entry, so the persisted trail holds at least
\* k - 1 events.
C24_TransitionsAudited ==
    \A p \in DOMAIN active_processes :
        \A k \in 1..Len(WebStageStatus) :
            (active_processes[p].status = WebStageStatus[k] /\ p \in DOMAIN auditFile) =>
                Len(auditFile[p].events) >= k - 1

C26_RenderingsAgree ==
    /\ json_log_file = None <=> log_file = None
    /\ (json_log_file # None /\ log_file # None) =>
            /\ Head(log_file) = json_log_file.status
            /\ Tail(log_file) = json_log_file.events

\* C27: log_error never raises, even when persisting fails, and when it is
\* over the status of the trail is error.
C27_FailNeverRaises ==
    (audit_call.op = "log_error" /\ audit_call.raised # "killed") =>
        /\ audit_call.raised = ""
        /\ logs.status = "error"

\* C28: in the per-record results of validate_process_chain, a check whose
\* optional field (data, previous_hash) is missing is reported as not
\* applicable, and a record on which no check was applicable is not reported
\* as valid.
C28_NotApplicableIsNotPass ==
    (chain_result # None) =>
        \A i \in 1..Len(chain_result.results) :
            chain_result.results[i].checked =>
                /\ chain_data[i].data = Absent => chain_result.results[i].hash_valid = "none"
                /\ chain_data[i].previous_hash = Absent => chain_result.results[i].prev_hash_valid = "none"
                /\ (/\ chain_result.results[i].hash_valid = "none"
                    /\ chain_result.results[i].prev_hash_valid = "none")
                   => ~chain_result.results[i].is_valid

\* C29: every operation of the integrity ledger (generate_file_hash,
\* generate_data_hash, validate_file_integrity, validate_process_chain,
\* create_integrity_signature, verify_integrity_signature), on every input
\* and whether it succeeds or fails, appends at least one validation to the
\* report.
C29_EveryOperationRecords ==
    /\ ledger_call.op # "none" => Len(ledger_call.result.recorded) >= 1
    /\ chain_result # None => chain_result.recorded
    /\ signed # None => Len(signed.result.recorded) >= 1
    /\ verified # None => Len(verified.result.recorded) >= 1

\* the last validation a call appended
LastRecorded(call_result) == call_result.recorded[Len(call_result.recorded)]

NonePending == \A i \in 1..Len(tasks) : tasks[i].status # "pending"

\* C32: when no Task is pending, a lease attempt returns None and leaves
\* every Task of the store unchanged, and the worker goes to sleep: it makes
\* no lease attempt (and changes no Task) until the sleep is over.
C32_EmptyLeaseBacksOff ==
    [][\A w \in Workers :
            /\ (pc[w] = "poll" /\ pc'[w] \in {"assign", "sleep"} /\ NonePending) =>
                    /\ tasks' = tasks
                    /\ task'[w] = None
                    /\ pc'[w] = "sleep"
            /\ (pc[w] = "sleep" /\ pc'[w] # "sleep") =>
                    /\ pc'[w] \in {"poll", "exited", "crashed"}
                    /\ tasks' = tasks]_vars

\* C32 witness: a worker sleeps after a lease attempt that found the store
\* non-empty and without a pending Task.
C32_BackoffWitness ==
    \E w \in Workers :
        /\ pc[w] = "sleep"
        /\ task[w] = None
        /\ Len(tasks) >= 1
        /\ NonePending

\* C33: the status of a Task never returns to pending once it has left
\* pending, and a Task that has left pending is never leased again (its
\* worker_id, which only the lease writes, stays as it is), whatever the
\* workers, failures, signals and cancels.
C33_LeasedAtMostOnce ==
    [][\A i \in 1..Len(tasks) :
            tasks[i].status # "pending" =>
                /\ tasks'[i].status # "pending"
                /\ tasks'[i].worker_id = tasks[i].worker_id]_vars

\* C33 witness: a Task that failed is in the store while a worker that
\* processed it polls again.
C33_PolledAgainWitness ==
    \E i \in 1..Len(tasks), w \in Workers :
        /\ tasks[i].status = "failed"
        /\ tasks[i].worker_id = w
        /\ pc[w] = "sleep"

\* the i-th Task of the store is there and in processing
TaskInProcessing(i) == IF i <= Len(tasks) THEN tasks[i].status = "processing" ELSE FALSE

\* the i-th Task is completed or failed, or the worker that leased it was
\* stopped by a signal or a crash
TaskEndedOrWorkerStopped(i) ==
    IF i > Len(tasks) THEN FALSE
    ELSE IF tasks[i].status \in {"completed", "failed"} THEN TRUE
    ELSE IF tasks[i].worker_id \in Workers THEN ~running[tasks[i].worker_id]
    ELSE FALSE

\* C34: when every stage collaborator call returns or raises and the store
\* answers, a leased Task does not stay in processing forever: unless a
\* signal or a crash stops the worker that holds it, its status eventually
\* is completed or failed.
C34_LeasedTaskTerminates ==
    \A i \in 1..MaxLoad : TaskInProcessing(i) ~> TaskEndedOrWorkerStopped(i)

\* C34 witness: a Task whose six stages ran is completed and the worker that
\* processed it is still running.
C34_CompletedWitness ==
    \E i \in 1..Len(tasks) :
        /\ tasks[i].status = "completed"
        /\ tasks[i].worker_id \in Workers
        /\ running[tasks[i].worker_id]
        /\ Len(calls[tasks[i].id]) = PublishStage

\* the i-th Task of the store is there and pending
TaskPending(i) == IF i <= Len(tasks) THEN tasks[i].status = "pending" ELSE FALSE

\* the i-th Task was leased (or cancelled while pending), or no worker is
\* running any more
TaskLeasedOrNoWorker(i) ==
    IF i > Len(tasks) THEN FALSE
    ELSE \/ tasks[i].worker_id \in Workers
         \/ tasks[i].status = "cancelled"
         \/ \A w \in Workers : ~running[w]

\* C35: with finitely many submissions and stage collaborators that return
\* or raise, every pending Task is eventually leased as long as one worker
\* keeps running (no signal, no crash): no pending Task stays unleased
\* forever.
C35_PendingEventuallyLeased ==
    \A i \in 1..MaxLoad : TaskPending(i) ~> TaskLeasedOrNoWorker(i)

\* C35 witness: a worker that finished one Task holds the lease of a Task
\* that was submitted later.
C35_LaterLeaseWitness ==
    \E i \in 1..Len(tasks), j \in 1..Len(tasks) :
        /\ i < j
        /\ tasks[i].status \in {"completed", "failed"}
        /\ tasks[j].status = "processing"
        /\ tasks[j].worker_id = tasks[i].worker_id
        /\ running[tasks[j].worker_id]

\* C36: self.current_task is set exactly while the worker processes a
\* leased Task: whenever the worker polls or sleeps between lease attempts,
\* also after an error escaped process_task into the main loop, it is
\* empty; so a signal only marks as interrupted a Task that is being
\* processed.
C36_CurrentTaskOnlyWhileProcessing ==
    /\ \A w \in Workers : pc[w] \in {"poll", "sleep"} => current_task[w] = None
    /\ run_loop.pc \in {"poll", "sleep", "error_sleep"} => run_loop.current_task = None
    /\ run_loop.pc = "process" => run_loop.current_task # None

\* the audit trail of process id holds a completion event
AuditCompleted(id) == id \in DOMAIN auditFile /\ auditFile[id].status = "completed"

\* C37: status completed implies that the final report is persisted and the
\* audit status is completed (and, for the queue worker, that the result
\* document is inserted); and once a process's audit status has become
\* completed, the process does not end with status failed or audit status
\* error.
C37_CompletionAfterPersistence ==
    /\ [](\A i \in 1..Len(tasks) :
            tasks[i].status = "completed" =>
                /\ tasks[i].id \in DOMAIN reportFile
                /\ AuditCompleted(tasks[i].id)
                /\ \E j \in 1..Len(results) : results[j] = tasks[i].id)
    /\ [](\A p \in DOMAIN active_processes :
            active_processes[p].status = "completed" => p \in DOMAIN reportFile /\ AuditCompleted(p))
    /\ [][/\ \A i \in 1..Len(tasks) :
                AuditCompleted(tasks[i].id) =>
                    AuditCompleted(tasks[i].id)' /\ tasks'[i].status # "failed"
          /\ \A p \in DOMAIN active_processes :
                AuditCompleted(p) => AuditCompleted(p)' /\ active_processes'[p].status # "failed"]_vars

\* C38: a Task submitted with publish set is completed with a final report
\* stating tiktok_published = true only if the publication collaborator
\* reported success: no completed Task's report says it was published when
\* the publication reported failure.
C38_PublishedOnlyOnSuccess ==
    \A i \in 1..Len(tasks) :
        (/\ tasks[i].status = "completed"
         /\ tasks[i].id \in DOMAIN reportFile
         /\ reportFile[tasks[i].id].tiktok_published)
        => reportFile[tasks[i].id].tiktok_result = PublishResult("returned")

\* the stage entries of a manifest are the first stages of the pipeline, in
\* order and once each, and the publication entry needs the publish flag
StagesInOrder(entries, publish) ==
    /\ Len(entries) <= Len(StageNames)
    /\ entries = SubSeq(StageNames, 1, Len(entries))
    /\ (\E k \in 1..Len(entries) : entries[k] = StageNames[PublishStage]) => publish

\* C39: in every reachable state the stage entries of a process's manifest
\* appear in pipeline order (acquisition, analysis, editing, adaptation,
\* optimization, publication), each stage at most once, an entry is present
\* only if the entries of all earlier stages are, and a publication entry is
\* present only if the publish flag was set.
C39_ManifestInPipelineOrder ==
    /\ \A i \in 1..Len(tasks) :
        tasks[i].id \in DOMAIN manifestFile => StagesInOrder(manifestFile[tasks[i].id], tasks[i].publish)
    /\ \A p \in DOMAIN active_processes :
        p \in DOMAIN manifestFile => StagesInOrder(manifestFile[p], active_processes[p].publish)

\* a Task's manifest holds all six stage entries, publication last
C39_FullManifestWitness ==
    \E i \in 1..Len(tasks) :
        /\ tasks[i].id \in DOMAIN manifestFile
        /\ tasks[i].publish
        /\ manifestFile[tasks[i].id] = StageNames

\* what a pipeline run leaves behind when it invoked the collaborators cs
\* and its try block ended with exception exc ("" when it ran to its end):
\* the collaborators are the first stages in order, every stage but a failed
\* one has its manifest entry, the audit trail holds the start and then the
\* completion or the error, and the terminal status follows
RunOutcome(publish, cs, exc) ==
    [calls |-> SubSeq(StageNames, 1, Len(cs)),
     manifest |-> SubSeq(StageNames, 1, IF exc = "" THEN Len(cs) ELSE Len(cs) - 1),
     events |-> IF exc = "" THEN <<"process_start", "process_complete">> ELSE <<"process_start", "error">>,
     status |-> IF exc = "" THEN "completed" ELSE "failed",
     stages |-> IF exc # "" THEN Len(cs) ELSE IF publish THEN PublishStage ELSE LastMandatoryStage]

\* what process_task left behind for Task i
TaskRun(i) ==
    [calls |-> calls[tasks[i].id], manifest |-> manifestFile[tasks[i].id],
     events |-> auditFile[tasks[i].id].events, status |-> tasks[i].status,
     stages |-> Len(calls[tasks[i].id])]

\* what process_conversion left behind for process p
ConversionRun(p) ==
    [calls |-> calls[p], manifest |-> manifestFile[p],
     events |-> auditFile[p].events, status |-> active_processes[p].status,
     stages |-> Len(calls[p])]

\* C40: for the same request and the same stage collaborator outcomes, with
\* no cancel, signal or crash (and a store that accepts the worker's
\* writes), process_task and process_conversion invoke the same stage
\* collaborators in the same order, leave the same manifest entries and
\* audit events and end in corresponding terminal states: both leave what
\* RunOutcome gives for the request and the outcomes.
C40_PipelinesEquivalent ==
    /\ \A i \in 1..Len(tasks) :
        (/\ tasks[i].status \in {"completed", "failed"}
         /\ \A w \in started : running[w]
         /\ thrown[tasks[i].id] # InsertError)
        => TaskRun(i) = RunOutcome(tasks[i].publish, calls[tasks[i].id], thrown[tasks[i].id])
    /\ \A p \in DOMAIN active_processes :
        (wpc[p] = "done" /\ cancelInfo[p].at = "none")
        => ConversionRun(p) = RunOutcome(active_processes[p].publish, calls[p], thrown[p])

====
